---- MODULE Spec2Model ----
(***************************************************************************)
(* Verification model of the DropTruck voice sales agent.                  *)
(*                                                                         *)
(*   LLMAgent              src/app/llm.py       conversation policy        *)
(*   BookingData           src/core/prompt.py   booking record             *)
(*   ConversationRecorder  src/core/audio_recorder.py  capture and merge   *)
(*   VoiceAgent            src/main.py          orchestrator               *)
(*                                                                         *)
(* Texts are TLA+ strings; TLC evaluates Len, SubSeq, Head, Tail and \o on *)
(* them, so str.lower(), str.strip() and the `in` substring test are       *)
(* computed character by character as Python computes them.                *)
(***************************************************************************)
EXTENDS Integers, Sequences, FiniteSets, TLC

VARIABLES
    \* ---- LLMAgent (src/app/llm.py)
    api_key,               \* TRUE iff an OpenAI key is configured (FALSE: echo mode)
    conversation_history,  \* sequence of [role, content]
    booking_data,          \* the BookingData object: attribute name -> value
    llm_pc,                \* "idle", or "calling" while _call_openai is in flight
    user_text,             \* generate_response's argument while it is in flight
    response,              \* what the last generate_response returned
    clock,                 \* datetime.now(), as a day number
    logger,                \* TRUE iff a WorkflowLogger is attached (llm.py line 25)
    booking_updates,       \* the logger's list of [field, value] update events
    \* ---- ConversationRecorder (src/core/audio_recorder.py)
    user_audio_buffer,     \* list of chunks
    recording_active,
    lock,                  \* holder of self.lock: "free", "capture" or "main"
    files,                 \* the session directory: path -> content, or NoFile
    assistant_responses,   \* list of registered reply paths
    cap_pc,                \* capture thread inside add_audio_chunk
    cap_chunk,             \* add_audio_chunk's argument
    next_chunk,            \* number of the next frame the audio driver delivers
    rec_pc,                \* processing thread inside start_/stop_recording
    audio_data,            \* _save_user_audio's local: the joined bytes
    conversation,          \* merge_conversation's local: the timeline built
    last_return,           \* the last completed recorder call and what it returned
    merge_begun,           \* merge_conversation has been entered (line 105)
    \* ---- VoiceAgent (src/main.py)
    agent_pc,              \* position of the main thread in run()/shutdown()
    current_transcript,
    segment_ready,
    call_complete,
    stream_open,           \* inside `with sd.InputStream(...)`
    stt_listening,         \* the transcription listener thread is delivering
    stt_pc,                \* the listener thread inside SpeechToText._on_message
    transcripts_sent,      \* number of transcripts the provider has delivered
    loop_text,             \* run()'s local user_text
    api_sent,              \* number of send_booking requests made
    exit_status,           \* how the process ended
    \* ---- TextToSpeech (src/app/tts.py)
    audio_responses        \* replies synthesized and kept in memory (line 35)

llm_vars == <<api_key, conversation_history, booking_data, llm_pc, user_text,
              response, clock, logger, booking_updates>>
rec_vars == <<user_audio_buffer, recording_active, lock, files,
              assistant_responses, cap_pc, cap_chunk, next_chunk, rec_pc,
              audio_data, conversation, last_return, merge_begun>>
agent_vars == <<agent_pc, current_transcript, segment_ready, call_complete,
                stream_open, stt_listening, stt_pc, transcripts_sent, loop_text,
                api_sent, exit_status, audio_responses>>
vars == <<llm_vars, rec_vars, agent_vars>>

(***************************************************************************)
(* Bounds of the model.                                                    *)
(***************************************************************************)
MaxTurns == 2      \* generate_response calls per conversation
MaxChunks == 2     \* frames the audio driver delivers
MaxReplies == 3    \* assistant replies registered with the recorder
MaxDay == 1        \* days the wall clock advances during a call
MaxSegments == 2   \* transcripts the provider delivers per call
MaxUpdates == 3    \* update events after which no further utterance is extracted

(***************************************************************************)
(* Python string primitives.                                               *)
(***************************************************************************)
None == "<None>"

Ch(s, i) == SubSeq(s, i, i)

\* one character of str.lower()
LowerCh(c) ==
    CASE c = "A" -> "a" [] c = "B" -> "b" [] c = "C" -> "c" [] c = "D" -> "d"
      [] c = "E" -> "e" [] c = "F" -> "f" [] c = "G" -> "g" [] c = "H" -> "h"
      [] c = "I" -> "i" [] c = "J" -> "j" [] c = "K" -> "k" [] c = "L" -> "l"
      [] c = "M" -> "m" [] c = "N" -> "n" [] c = "O" -> "o" [] c = "P" -> "p"
      [] c = "Q" -> "q" [] c = "R" -> "r" [] c = "S" -> "s" [] c = "T" -> "t"
      [] c = "U" -> "u" [] c = "V" -> "v" [] c = "W" -> "w" [] c = "X" -> "x"
      [] c = "Y" -> "y" [] c = "Z" -> "z" [] OTHER -> c

RECURSIVE Lower(_)
Lower(s) == IF s = "" THEN "" ELSE LowerCh(Head(s)) \o Lower(Tail(s))

IsSpace(c) == c \in {" ", "\t", "\n", "\r"}

RECURSIVE LStrip(_)
LStrip(s) == IF s # "" /\ IsSpace(Head(s)) THEN LStrip(Tail(s)) ELSE s

RECURSIVE RStrip(_)
RStrip(s) ==
    IF s # "" /\ IsSpace(Ch(s, Len(s))) THEN RStrip(SubSeq(s, 1, Len(s) - 1)) ELSE s

Strip(s) == RStrip(LStrip(s))

\* Python's `k in s` on strings
Contains(s, k) ==
    \E i \in 1..(Len(s) - Len(k) + 1) : SubSeq(s, i, i + Len(k) - 1) = k

\* any(keyword in text for keyword in keywords)
AnyIn(keywords, text) == \E i \in 1..Len(keywords) : Contains(text, keywords[i])

\* truthiness of an Optional[str]
Truthy(v) == v # None /\ v # ""

\* " ".join(parts)
RECURSIVE JoinSpace(_)
JoinSpace(parts) ==
    IF parts = <<>> THEN ""
    ELSE IF Len(parts) = 1 THEN parts[1]
    ELSE parts[1] \o " " \o JoinSpace(Tail(parts))

(***************************************************************************)
(* BookingData (src/core/prompt.py).                                       *)
(***************************************************************************)
\* BookingData.__init__: the attributes an instance has
BookingDataInit ==
    [customer_name |-> "Lokesh", contact |-> "9066542031", lead_source |-> None,
     pickup_location |-> None, drop_location |-> None, vehicle_type |-> None,
     body_type |-> None, goods_type |-> None, trip_date |-> None,
     confirmation_status |-> "pending"]

\* the attributes BookingData.__str__ reads, in the order of its f-string
StrReads ==
    <<"customer_name", "contact", "lead_source", "enquiry_details",
      "pickup_location", "drop_location", "vehicle_type", "body_type",
      "goods_type", "trip_date", "confirmation_status">>

\* str(booking_data) raises AttributeError iff it reads an attribute the
\* instance does not have
StrRaises(bd) == \E i \in 1..Len(StrReads) : StrReads[i] \notin DOMAIN bd

\* BookingData.is_complete
is_complete(bd) ==
    /\ Truthy(bd.pickup_location) /\ Truthy(bd.drop_location)
    /\ Truthy(bd.vehicle_type) /\ Truthy(bd.body_type)
    /\ Truthy(bd.goods_type) /\ Truthy(bd.trip_date)

(***************************************************************************)
(* datetime.now() + timedelta(days = n), strftime("%Y-%m-%d").            *)
(***************************************************************************)
\* the date of day 0 of the model's clock
Epoch == [y |-> 2025, m |-> 11, d |-> 29]

IsLeap(y) == (y % 4 = 0 /\ y % 100 # 0) \/ y % 400 = 0

DaysInMonth(y, m) ==
    IF m = 2 THEN (IF IsLeap(y) THEN 29 ELSE 28)
    ELSE IF m \in {4, 6, 9, 11} THEN 30 ELSE 31

NextDate(t) ==
    IF t.d < DaysInMonth(t.y, t.m) THEN [t EXCEPT !.d = t.d + 1]
    ELSE IF t.m < 12 THEN [t EXCEPT !.m = t.m + 1, !.d = 1]
    ELSE [y |-> t.y + 1, m |-> 1, d |-> 1]

RECURSIVE AddDays(_, _)
AddDays(t, n) == IF n = 0 THEN t ELSE AddDays(NextDate(t), n - 1)

Digit(k) == SubSeq("0123456789", k + 1, k + 1)

Pad2(k) == Digit(k \div 10) \o Digit(k % 10)

Pad4(k) == Pad2(k \div 100) \o Pad2(k % 100)

\* strftime("%Y-%m-%d")
Strftime(t) == Pad4(t.y) \o "-" \o Pad2(t.m) \o "-" \o Pad2(t.d)

\* (datetime.now() + timedelta(days = n)).strftime("%Y-%m-%d") at clock day c
DateStr(c, n) == Strftime(AddDays(Epoch, c + n))

(***************************************************************************)
(* Texts of the model.                                                     *)
(***************************************************************************)
\* utterances a caller may speak, and replies the language model may give
UserTexts == {"Yes", "No", "right now", " "}

ReplyTexts == {"BOOKING_CONFIRMED", "Thanks. booking_confirmed", "Which city?", "Goodbye"}

\* transcripts the transcription provider may deliver
Transcripts == {"Yes", "No thanks, bye"}

\* what process_user_input may pass on: the finals of one turn, joined
TranscriptJoins ==
    {JoinSpace(q) : q \in UNION {[1..n -> Transcripts] : n \in 1..MaxSegments}}

\* utterances and replies that carry booking details
ExtractTexts ==
    {"from Chennai to Bangalore",
     "I need a Tata AC open truck",
     "Pickup in Sanit, drop in Benbrook",
     "Pickup in Chennai, drop in Bangalore, truck type Tata IC",
     "from Chennai Central to Goa",
     "Pickup in Goa, drop in UP",
     "from Salem to Erode, pickup Ooty, drop Agra",
     "from   to Goa",
     "steel container tomorrow",
     "cement open today",
     "truck type 407",
     "15 ft",
     "truck",
     "we know, tomorrow",
     "day after tomorrow"}

\* the lower-cased texts _extract_booking_info is applied to
ModelTexts ==
    {Lower(t) : t \in UserTexts \cup ReplyTexts \cup TranscriptJoins \cup ExtractTexts}

(***************************************************************************)
(* Python's str.title().                                                   *)
(***************************************************************************)
\* one character of str.upper()
UpperCh(c) ==
    CASE c = "a" -> "A" [] c = "b" -> "B" [] c = "c" -> "C" [] c = "d" -> "D"
      [] c = "e" -> "E" [] c = "f" -> "F" [] c = "g" -> "G" [] c = "h" -> "H"
      [] c = "i" -> "I" [] c = "j" -> "J" [] c = "k" -> "K" [] c = "l" -> "L"
      [] c = "m" -> "M" [] c = "n" -> "N" [] c = "o" -> "O" [] c = "p" -> "P"
      [] c = "q" -> "Q" [] c = "r" -> "R" [] c = "s" -> "S" [] c = "t" -> "T"
      [] c = "u" -> "U" [] c = "v" -> "V" [] c = "w" -> "W" [] c = "x" -> "X"
      [] c = "y" -> "Y" [] c = "z" -> "Z" [] OTHER -> c

IsAlpha(c) == LowerCh(c) # c \/ UpperCh(c) # c

\* str.title(): the first letter of every run of letters in upper case, the
\* other letters in lower case
RECURSIVE TitleFrom(_, _)
TitleFrom(s, prevAlpha) ==
    IF s = "" THEN ""
    ELSE (IF prevAlpha THEN LowerCh(Head(s)) ELSE UpperCh(Head(s)))
         \o TitleFrom(Tail(s), IsAlpha(Head(s)))

Title(s) == TitleFrom(s, FALSE)

(***************************************************************************)
(* Python's re.search for the patterns of _extract_booking_info: a         *)
(* backtracking matcher over the pattern's syntax tree.  Ends(node, s, p,  *)
(* g) is the sequence of ways the node can match s from position p with    *)
(* groups g, in the order the backtracking engine tries them; re.search    *)
(* returns the first way at the leftmost position that has one.            *)
(***************************************************************************)
IsDigit(c) == c \in {"0", "1", "2", "3", "4", "5", "6", "7", "8", "9"}

\* \w on the ASCII texts of the model
IsWord(c) == IsAlpha(c) \/ IsDigit(c) \/ c = "_"

\* the character classes the patterns use
InClass(class, c) ==
    CASE class = "\\s" -> IsSpace(c)
      [] class = "\\d" -> IsDigit(c)
      [] class = "[a-zA-Z\\s]" -> IsAlpha(c) \/ IsSpace(c)
      [] class = "[a-zA-Z0-9\\s]" -> IsAlpha(c) \/ IsDigit(c) \/ IsSpace(c)

Lit(str) == [t |-> "lit", s |-> str]
Class(class) == [t |-> "class", c |-> class]
Cat(xs) == [t |-> "cat", xs |-> xs]
Alt(xs) == [t |-> "alt", xs |-> xs]
Plus(class) == [t |-> "plus", c |-> class, greedy |-> TRUE]
LazyPlus(class) == [t |-> "plus", c |-> class, greedy |-> FALSE]
Star(class) == [t |-> "star", c |-> class]
Opt(x) == [t |-> "opt", x |-> x]
Group(n, x) == [t |-> "group", n |-> n, x |-> x]
Eol == [t |-> "$"]
WordBoundary == [t |-> "\\b"]

\* \b: between a word character and a non-word character or an end
AtWordBoundary(s, p) ==
    LET before == p > 1 /\ IsWord(Ch(s, p - 1))
        after == p <= Len(s) /\ IsWord(Ch(s, p))
    IN before # after

\* $ without re.MULTILINE: at the end, or before a final newline
AtEol(s, p) == p = Len(s) + 1 \/ (p = Len(s) /\ Ch(s, p) = "\n")

\* the number of characters of the class that s has from position p on
ClassRun(class, s, p) ==
    LET stops == {q \in p..(Len(s) + 1) : q = Len(s) + 1 \/ ~InClass(class, Ch(s, q))}
    IN (CHOOSE q \in stops : \A r \in stops : q <= r) - p

RECURSIVE Ends(_, _, _, _), Continue(_, _, _, _), Flatten(_, _, _),
          AltEnds(_, _, _, _, _)
Ends(node, s, p, g) ==
    CASE node.t = "lit" ->
           IF p + Len(node.s) - 1 <= Len(s) /\ SubSeq(s, p, p + Len(node.s) - 1) = node.s
           THEN <<[p |-> p + Len(node.s), g |-> g]>> ELSE <<>>
      [] node.t = "class" ->
           IF p <= Len(s) /\ InClass(node.c, Ch(s, p))
           THEN <<[p |-> p + 1, g |-> g]>> ELSE <<>>
      [] node.t = "$" -> IF AtEol(s, p) THEN <<[p |-> p, g |-> g]>> ELSE <<>>
      [] node.t = "\\b" -> IF AtWordBoundary(s, p) THEN <<[p |-> p, g |-> g]>> ELSE <<>>
      [] node.t = "cat" -> Continue(node.xs, 1, s, <<[p |-> p, g |-> g]>>)
      [] node.t = "alt" -> AltEnds(node.xs, 1, s, p, g)
      [] node.t = "plus" ->
           \* one or more characters of a class: a greedy quantifier tries the
           \* longest run first, a lazy one the shortest
           LET run == ClassRun(node.c, s, p)
           IN [n \in 1..run |->
                 [p |-> p + (IF node.greedy THEN run - n + 1 ELSE n), g |-> g]]
      [] node.t = "star" ->
           LET run == ClassRun(node.c, s, p)
           IN [n \in 1..(run + 1) |-> [p |-> p + run - n + 1, g |-> g]]
      [] node.t = "opt" -> Ends(node.x, s, p, g) \o <<[p |-> p, g |-> g]>>
      [] node.t = "group" ->
           LET inner == Ends(node.x, s, p, g)
           IN [k \in 1..Len(inner) |->
                 [p |-> inner[k].p,
                  g |-> [inner[k].g EXCEPT ![node.n] = SubSeq(s, p, inner[k].p - 1)]]]

\* the sequences seqs[lo], ..., seqs[hi] one after the other
Flatten(seqs, lo, hi) ==
    IF lo > hi THEN <<>>
    ELSE IF lo = hi THEN seqs[lo]
    ELSE LET mid == (lo + hi) \div 2
         IN Flatten(seqs, lo, mid) \o Flatten(seqs, mid + 1, hi)

\* a concatenation: the ways, in the order the engine tries them, of matching
\* the items from the k-th on after each of the ways found so far
Continue(xs, k, s, ways) ==
    IF Len(ways) = 0 \/ k > Len(xs) THEN ways
    ELSE Continue(xs, k + 1, s,
                  Flatten([i \in 1..Len(ways) |-> Ends(xs[k], s, ways[i].p, ways[i].g)],
                          1, Len(ways)))

\* an alternation: the ways of each branch, branches in the order written
AltEnds(xs, k, s, p, g) ==
    IF k > Len(xs) THEN <<>>
    ELSE Ends(xs[k], s, p, g) \o AltEnds(xs, k + 1, s, p, g)

NoGroups == <<None, None>>

\* re.search(...) is None
NoMatch == <<>>

\* re.search(pattern, s): the groups of the first match at the leftmost
\* position that has one, or NoMatch
Search(pattern, s) ==
    LET starts == [p \in 1..(Len(s) + 1) |-> [p |-> p, g |-> NoGroups]]
        First(ways) == IF Len(ways) = 0 THEN NoMatch ELSE ways[1].g
    IN First(Continue(pattern.xs, 1, s, starts))

\* line 209: (?:from|pickup|trip from)\s+([a-zA-Z\s]+?)\s+(?:to|drop)\s+
\*           ([a-zA-Z\s]+?)(?:\s|,|$|\.|\band\b)
from_to_pattern ==
    Cat(<<Alt(<<Lit("from"), Lit("pickup"), Lit("trip from")>>),
          Plus("\\s"),
          Group(1, LazyPlus("[a-zA-Z\\s]")),
          Plus("\\s"),
          Alt(<<Lit("to"), Lit("drop")>>),
          Plus("\\s"),
          Group(2, LazyPlus("[a-zA-Z\\s]")),
          Alt(<<Class("\\s"), Lit(","), Eol, Lit("."),
                Cat(<<WordBoundary, Lit("and"), WordBoundary>>)>>)>>)

\* line 228: pickup\s+(?:in\s+)?([a-zA-Z\s]+?),\s*drop\s+(?:in\s+)?
\*           ([a-zA-Z\s]+?)(?:,|truck|\s+truck|\.|$)
confirmation_pattern ==
    Cat(<<Lit("pickup"),
          Plus("\\s"),
          Opt(Cat(<<Lit("in"), Plus("\\s")>>)),
          Group(1, LazyPlus("[a-zA-Z\\s]")),
          Lit(","),
          Star("\\s"),
          Lit("drop"),
          Plus("\\s"),
          Opt(Cat(<<Lit("in"), Plus("\\s")>>)),
          Group(2, LazyPlus("[a-zA-Z\\s]")),
          Alt(<<Lit(","), Lit("truck"), Cat(<<Plus("\\s"), Lit("truck")>>),
                Lit("."), Eol>>)>>)

\* line 356: truck\s+(?:type\s+)?([a-zA-Z0-9\s]+?)(?:,|body|\s+open|\s+container|\.|$)
truck_type_pattern ==
    Cat(<<Lit("truck"),
          Plus("\\s"),
          Opt(Cat(<<Lit("type"), Plus("\\s")>>)),
          Group(1, LazyPlus("[a-zA-Z0-9\\s]")),
          Alt(<<Lit(","), Lit("body"), Cat(<<Plus("\\s"), Lit("open")>>),
                Cat(<<Plus("\\s"), Lit("container")>>), Lit("."), Eol>>)>>)

\* line 380: (\d+)\s*(?:feet|ft|foot)
feet_pattern ==
    Cat(<<Group(1, Plus("\\d")),
          Star("\\s"),
          Alt(<<Lit("feet"), Lit("ft"), Lit("foot")>>)>>)

(***************************************************************************)
(* fuzzywuzzy.fuzz as LLMAgent._extract_booking_info uses it: ratio and    *)
(* partial_ratio over difflib.SequenceMatcher (no junk; autojunk needs 200 *)
(* characters).                                                            *)
(***************************************************************************)
\* the substrings of length k of s[lo..hi]
Substrings(s, lo, hi, k) == {SubSeq(s, i, i + k - 1) : i \in lo..(hi - k + 1)}

\* the length of the longest substring a[alo..ahi] and b[blo..bhi] share,
\* given that they share one of length k
RECURSIVE LongestCommon(_, _, _, _, _, _, _)
LongestCommon(a, b, alo, ahi, blo, bhi, k) ==
    IF Substrings(a, alo, ahi, k + 1) \cap Substrings(b, blo, bhi, k + 1) = {} THEN k
    ELSE LongestCommon(a, b, alo, ahi, blo, bhi, k + 1)

\* the least of a set of positions
Earliest(S) == CHOOSE i \in S : \A m \in S : i <= m

\* SequenceMatcher.find_longest_match(alo, ahi, blo, bhi): the longest block,
\* of those the one that starts earliest in a, of those the one that starts
\* earliest in b; [i, j, k] with k = 0 when nothing matches
FindLongestMatch(a, b, alo, ahi, blo, bhi) ==
    LET StartingAt(besti, k) ==
            [i |-> besti,
             j |-> Earliest({j \in blo..(bhi - k + 1) :
                               SubSeq(b, j, j + k - 1) = SubSeq(a, besti, besti + k - 1)}),
             k |-> k]
        OfSize(k, inb) ==
            IF k = 0 THEN [i |-> alo, j |-> blo, k |-> 0]
            ELSE StartingAt(Earliest({i \in alo..(ahi - k + 1) :
                                        SubSeq(a, i, i + k - 1) \in inb}), k)
        Longest(k) == OfSize(k, Substrings(b, blo, bhi, k))
    IN Longest(LongestCommon(a, b, alo, ahi, blo, bhi, 0))

\* SequenceMatcher.get_matching_blocks() without its closing sentinel: the
\* longest match, then the blocks to its left and to its right (with no junk
\* two blocks are never adjacent, so the merging pass changes nothing)
RECURSIVE MatchingBlocks(_, _, _, _, _, _)
MatchingBlocks(a, b, alo, ahi, blo, bhi) ==
    LET Around(m) ==
            IF m.k = 0 THEN <<>>
            ELSE MatchingBlocks(a, b, alo, m.i - 1, blo, m.j - 1)
                 \o <<m>>
                 \o MatchingBlocks(a, b, m.i + m.k, ahi, m.j + m.k, bhi)
    IN IF alo > ahi \/ blo > bhi THEN <<>>
       ELSE Around(FindLongestMatch(a, b, alo, ahi, blo, bhi))

get_matching_blocks(a, b) ==
    MatchingBlocks(a, b, 1, Len(a), 1, Len(b))
        \o <<[i |-> Len(a) + 1, j |-> Len(b) + 1, k |-> 0]>>

RECURSIVE SumSizes(_)
SumSizes(blocks) == IF blocks = <<>> THEN 0 ELSE Head(blocks).k + SumSizes(Tail(blocks))

\* the number of matched characters M of SequenceMatcher(None, a, b);
\* ratio() is 2.0 * M / (len(a) + len(b))
MatchedChars(a, b) == SumSizes(MatchingBlocks(a, b, 1, Len(a), 1, Len(b)))

\* utils.intr(100 * 2.0 * m / t): int(round(.)), halves go to the even integer
Intr(m, t) ==
    LET q == (200 * m) \div t
        r == (200 * m) % t
    IN IF 2 * r < t THEN q
       ELSE IF 2 * r > t THEN q + 1
       ELSE IF q % 2 = 0 THEN q ELSE q + 1

\* fuzz.ratio(s1, s2)
ratio(s1, s2) ==
    IF s1 = s2 THEN 100
    ELSE IF s1 = "" \/ s2 = "" THEN 0
    ELSE Intr(MatchedChars(s1, s2), Len(s1) + Len(s2))

\* one pass of partial_ratio's loop over the blocks: the window of the longer
\* string aligned with the block, scored against the shorter string
RECURSIVE PartialOver(_, _, _, _)
PartialOver(shorter, longer, blocks, best) ==
    LET Window(blk) ==
            LET long_start == IF blk.j - blk.i > 0 THEN blk.j - blk.i ELSE 0
                long_end == long_start + Len(shorter)
            IN SubSeq(longer, long_start + 1,
                      IF long_end > Len(longer) THEN Len(longer) ELSE long_end)
        Larger(x, y) == IF x > y THEN x ELSE y
        Scored(m, t) ==
            IF 2000 * m > 995 * t THEN 100
            ELSE PartialOver(shorter, longer, Tail(blocks), Larger(Intr(m, t), best))
        Against(long_substr) ==
            Scored(MatchedChars(shorter, long_substr), Len(shorter) + Len(long_substr))
    IN IF blocks = <<>> THEN best
       ELSE Against(Window(Head(blocks)))

\* fuzz.partial_ratio(s1, s2)
partial_ratio(s1, s2) ==
    IF s1 = s2 THEN 100
    ELSE IF s1 = "" \/ s2 = "" THEN 0
    ELSE LET shorter == IF Len(s1) <= Len(s2) THEN s1 ELSE s2
             longer == IF Len(s1) <= Len(s2) THEN s2 ELSE s1
         IN PartialOver(shorter, longer, get_matching_blocks(shorter, longer), 0)

\* An upper bound of partial_ratio(s1, s2).  A character of the shorter
\* string that does not occur in the longer one is matched in no window, so
\* a window w matches m <= n - d characters, n the length of the shorter
\* string and d the number of such characters; m <= len(w) as well, and the
\* window's ratio 2m / (n + len(w)) is at most 2m / (n + m), which grows
\* with m.
PartialRatioBound(s1, s2) ==
    LET shorter == IF Len(s1) <= Len(s2) THEN s1 ELSE s2
        longer == IF Len(s1) <= Len(s2) THEN s2 ELSE s1
        chars == {Ch(longer, j) : j \in 1..Len(longer)}
        n == Len(shorter)
        d == Cardinality({i \in 1..n : Ch(shorter, i) \notin chars})
    IN IF n = d THEN 0 ELSE Intr(n - d, 2 * n - d)

(***************************************************************************)
(* LLMAgent._extract_booking_info (src/app/llm.py 193-423), step by step.  *)
(***************************************************************************)
\* len(value or "")
LenOr(v) == IF Truthy(v) THEN Len(v) ELSE 0

\* lines 207-224: "from A to B"; a field is assigned while it is falsy or
\* when the capture is longer than its value
ExtractFromTo_AlwaysAssign(bd, match) ==
    IF match = NoMatch THEN bd
    ELSE [bd EXCEPT !.pickup_location = Title(Strip(match[1])),
                    !.drop_location = Title(Strip(match[2]))]

ExtractFromTo_OnlyWhenUnset(bd, match) ==
    IF match = NoMatch THEN bd
    ELSE [bd EXCEPT !.pickup_location = IF ~Truthy(@) THEN Title(Strip(match[1])) ELSE @,
                    !.drop_location = IF ~Truthy(@) THEN Title(Strip(match[2])) ELSE @]

ExtractFromTo(bd, match) ==
    IF match = NoMatch THEN bd
    ELSE LET pickup == Title(Strip(match[1]))
             drop == Title(Strip(match[2]))
             b1 == IF ~Truthy(bd.pickup_location) \/ Len(pickup) > LenOr(bd.pickup_location)
                   THEN [bd EXCEPT !.pickup_location = pickup] ELSE bd
         IN IF ~Truthy(b1.drop_location) \/ Len(drop) > LenOr(b1.drop_location)
            THEN [b1 EXCEPT !.drop_location = drop] ELSE b1

\* str.startswith(prefix)
StartsWith(s, prefix) ==
    Len(prefix) <= Len(s) /\ SubSeq(s, 1, Len(prefix)) = prefix

\* s[n:]
DropFirst(s, n) == IF n >= Len(s) THEN "" ELSE SubSeq(s, n + 1, Len(s))

\* line 235
location_prefixes == <<"in ", "from ", "at ">>

\* lines 235-239: one variable through the loop over the prefixes, from the
\* i-th prefix on
RECURSIVE StripPrefixes(_, _)
StripPrefixes(v, i) ==
    IF i > Len(location_prefixes) THEN v
    ELSE StripPrefixes(IF StartsWith(Lower(v), location_prefixes[i])
                       THEN Title(DropFirst(v, Len(location_prefixes[i])))
                       ELSE v,
                       i + 1)

\* lines 226-250: "pickup A, drop B"; a cleaned capture of more than two
\* characters is assigned whatever the field holds
ExtractConfirmation_NoLengthGuard(bd, match) ==
    IF match = NoMatch THEN bd
    ELSE [bd EXCEPT !.pickup_location = StripPrefixes(Title(Strip(match[1])), 1),
                    !.drop_location = StripPrefixes(Title(Strip(match[2])), 1)]

ExtractConfirmation(bd, match) ==
    IF match = NoMatch THEN bd
    ELSE LET pickup == StripPrefixes(Title(Strip(match[1])), 1)
             drop == StripPrefixes(Title(Strip(match[2])), 1)
             b1 == IF pickup # "" /\ Len(pickup) > 2
                   THEN [bd EXCEPT !.pickup_location = pickup] ELSE bd
         IN IF drop # "" /\ Len(drop) > 2
            THEN [b1 EXCEPT !.drop_location = drop] ELSE b1

\* lines 252-260: body type, set only while it is None
ExtractBodyType_Unguarded(bd, text_lower) ==
    IF Contains(text_lower, "open") THEN [bd EXCEPT !.body_type = "Open"]
    ELSE IF Contains(text_lower, "container") THEN [bd EXCEPT !.body_type = "Container"]
    ELSE bd

ExtractBodyType(bd, text_lower) ==
    IF Contains(text_lower, "open") /\ bd.body_type = None
    THEN [bd EXCEPT !.body_type = "Open"]
    ELSE IF Contains(text_lower, "container") /\ bd.body_type = None
    THEN [bd EXCEPT !.body_type = "Container"]
    ELSE bd

\* lines 266-320: vehicle_keywords.items(), in the order of the dict literal
vehicle_keywords ==
    <<
      <<"tata ace", "Tata Ace">>,
      <<"tata ac", "Tata Ace">>,
      <<"ace", "Tata Ace">>,
      <<"dost", "Dost">>,
      <<"bada dost", "Bada Dost">>,
      <<"bolero", "Bolero">>,
      <<"bolero pickup", "Bolero">>,
      <<"407", "407">>,
      <<"eicher", "Eicher">>,
      <<"ashok leyland", "Ashok Leyland">>,
      <<"12 feet", "12 Feet">>,
      <<"14 feet", "14 Feet">>,
      <<"17 feet", "17 Feet">>,
      <<"19 feet", "19 Feet">>,
      <<"20 feet", "20 Feet">>,
      <<"22 feet", "22 Feet">>,
      <<"24 feet", "24 Feet">>,
      <<"32 feet", "32 Feet Multi-Axle">>,
      <<"32 feet multi-axle", "32 Feet Multi-Axle">>,
      <<"32 feet multi axle", "32 Feet Multi-Axle">>,
      <<"trailer", "Trailer">>,
      <<"20 feet trailer", "20 Feet Trailer">>,
      <<"24 feet trailer", "24 Feet Trailer">>,
      <<"40 feet trailer", "40 Feet Trailer">>,
      <<"low-bed", "Low-Bed Trailer">>,
      <<"low bed", "Low-Bed Trailer">>,
      <<"semi-bed", "Semi-Bed Trailer">>,
      <<"semi bed", "Semi-Bed Trailer">>,
      <<"high-bed", "High-Bed Trailer">>,
      <<"high bed", "High-Bed Trailer">>,
      <<"6-wheel", "6-Wheel Truck">>,
      <<"6 wheel", "6-Wheel Truck">>,
      <<"10-wheel", "10-Wheel Truck">>,
      <<"10 wheel", "10-Wheel Truck">>,
      <<"12-wheel", "12-Wheel Truck">>,
      <<"12 wheel", "12-Wheel Truck">>,
      <<"14-wheel", "14-Wheel Truck">>,
      <<"14 wheel", "14-Wheel Truck">>,
      <<"16-wheel", "16-Wheel Truck">>,
      <<"16 wheel", "16-Wheel Truck">>,
      <<"car-carrier", "Car-Carrier">>,
      <<"car carrier", "Car-Carrier">>,
      <<"part-load", "Part-Load">>,
      <<"part load", "Part-Load">>
    >>

\* str.split(): the maximal runs of non-whitespace characters
RECURSIVE WordLen(_)
WordLen(s) == IF s = "" \/ IsSpace(Head(s)) THEN 0 ELSE 1 + WordLen(Tail(s))

RECURSIVE Split(_)
Split(s) ==
    LET t == LStrip(s)
        n == WordLen(t)
    IN IF t = "" THEN <<>> ELSE <<SubSeq(t, 1, n)>> \o Split(DropFirst(t, n))

\* best_score = 0, best_vehicle = None
NoVehicle == [score |-> 0, vehicle |-> None]

\* lines 337-344: the loop over the keywords for one phrase, entered with
\* the best pair so far.  An assignment needs a score of at least 85 that is
\* above every score before it, so the loop leaves the first keyword that
\* reaches the largest such score, or the pair it was entered with.  No score
\* exceeds 100, so a best score of 100 is final; a pair whose bound is below
\* 85 is not scored.
WindowKeywords(phrase, best) ==
    LET Top(hits) ==
            CHOOSE t \in hits : \A u \in hits : u[2] < t[2] \/ (u[2] = t[2] /\ t[1] <= u[1])
        Labelled(top) == [score |-> top[2], vehicle |-> vehicle_keywords[top[1]][2]]
        After(hits) == IF hits = {} THEN best ELSE Labelled(Top(hits))
    IN IF best.score = 100 THEN best
       ELSE After({t \in {<<k, partial_ratio(phrase, vehicle_keywords[k][1])>> :
                          k \in {n \in 1..Len(vehicle_keywords) :
                                    PartialRatioBound(phrase, vehicle_keywords[n][1]) >= 85}} :
                   t[2] >= 85 /\ t[2] > best.score})

\* lines 331-344: the spans words[i..j] of one to four words, in loop order
RECURSIVE WindowSpans(_, _, _, _)
WindowSpans(words, i, j, best) ==
    IF i > Len(words) \/ best.score = 100 THEN best
    ELSE IF j > Len(words) \/ j > i + 3 THEN WindowSpans(words, i + 1, i + 1, best)
    ELSE WindowSpans(words, i, j + 1,
                     WindowKeywords(JoinSpace(SubSeq(words, i, j)), best))

\* lines 326-344: best_vehicle of the sliding window, None when no pair
\* reaches 85
SlidingWindowMatch(text_lower) ==
    WindowSpans(Split(text_lower), 1, 1, NoVehicle).vehicle

\* lines 365-370: the loop over the keywords for the phrase after "truck":
\* the first keyword that reaches the largest score of at least 65
TruckKeywords(truck_mentioned) ==
    LET Top(hits) ==
            CHOOSE t \in hits : \A u \in hits : u[2] < t[2] \/ (u[2] = t[2] /\ t[1] <= u[1])
        Labelled(top) == [score |-> top[2], vehicle |-> vehicle_keywords[top[1]][2]]
        After(hits) == IF hits = {} THEN NoVehicle ELSE Labelled(Top(hits))
    IN After({t \in {<<k, ratio(Lower(truck_mentioned), vehicle_keywords[k][1])>> :
                     k \in 1..Len(vehicle_keywords)} :
              t[2] >= 65})

\* lines 356-370: best_vehicle of the "truck type X" re-match, None when the
\* pattern does not match or no keyword reaches 65
TruckTypeMatch(text_lower) ==
    LET Matched(truck_match) ==
            IF truck_match = NoMatch THEN None
            ELSE TruckKeywords(Strip(truck_match[1])).vehicle
    IN Matched(Search(truck_type_pattern, text_lower))

\* what the patterns and the two matchers find in a text; none of it depends
\* on the record
TextMatches(text_lower) ==
    [from_to |-> Search(from_to_pattern, text_lower),
     confirmation |-> Search(confirmation_pattern, text_lower),
     window |-> SlidingWindowMatch(text_lower),
     truck |-> TruckTypeMatch(text_lower),
     feet |-> Search(feet_pattern, text_lower)]

\* TextMatches, computed once for the texts of the model
MatchesOfModelTexts == [t \in ModelTexts |-> TextMatches(t)]

MatchesOf(text_lower) ==
    IF text_lower \in ModelTexts THEN MatchesOfModelTexts[text_lower]
    ELSE TextMatches(text_lower)

\* lines 322-390: sliding window while vehicle_type is falsy; the "truck type"
\* re-match whatever vehicle_type holds; the feet / "truck" fallback while
\* vehicle_type is still falsy
ExtractVehicleType_RematchWhileUnset(bd, text_lower, m) ==
    LET b1 == IF ~Truthy(bd.vehicle_type) /\ m.window # None
              THEN [bd EXCEPT !.vehicle_type = m.window] ELSE bd
        b2 == IF ~Truthy(b1.vehicle_type) /\ m.truck # None
              THEN [b1 EXCEPT !.vehicle_type = m.truck] ELSE b1
    IN IF Truthy(b2.vehicle_type) THEN b2
       ELSE IF m.feet # NoMatch THEN [b2 EXCEPT !.vehicle_type = m.feet[1] \o " Feet"]
       ELSE IF Contains(text_lower, "truck") THEN [b2 EXCEPT !.vehicle_type = "Truck"]
       ELSE b2

ExtractVehicleType(bd, text_lower, m) ==
    LET b1 == IF ~Truthy(bd.vehicle_type) /\ m.window # None
              THEN [bd EXCEPT !.vehicle_type = m.window] ELSE bd
        b2 == IF m.truck # None THEN [b1 EXCEPT !.vehicle_type = m.truck] ELSE b1
    IN IF Truthy(b2.vehicle_type) THEN b2
       ELSE IF m.feet # NoMatch THEN [b2 EXCEPT !.vehicle_type = m.feet[1] \o " Feet"]
       ELSE IF Contains(text_lower, "truck") THEN [b2 EXCEPT !.vehicle_type = "Truck"]
       ELSE b2

\* lines 393-397
materials ==
    <<"steel", "cement", "fmcg", "machinery", "furniture", "electronics",
      "food", "grain", "coal", "books", "paper", "textile", "clothes",
      "plastic", "metal", "wood", "glass", "chemicals">>

\* lines 398-403: the first material of the list found in the text, set only
\* while goods_type is falsy
RECURSIVE ExtractGoodsFrom(_, _, _)
ExtractGoodsFrom(bd, text_lower, i) ==
    IF i > Len(materials) THEN bd
    ELSE IF Contains(text_lower, materials[i]) /\ ~Truthy(bd.goods_type)
    THEN [bd EXCEPT !.goods_type = Title(materials[i])]
    ELSE ExtractGoodsFrom(bd, text_lower, i + 1)

ExtractGoodsType(bd, text_lower) == ExtractGoodsFrom(bd, text_lower, 1)

\* lines 408-423: relative dates, set only while trip_date is falsy; the
\* "tomorrow" branch is tested before "day after tomorrow"
ExtractTripDate(bd, text_lower, now) ==
    IF Truthy(bd.trip_date) THEN bd
    ELSE IF Contains(text_lower, "today") \/ Contains(text_lower, "now")
    THEN [bd EXCEPT !.trip_date = DateStr(now, 0)]
    ELSE IF Contains(text_lower, "tomorrow")
    THEN [bd EXCEPT !.trip_date = DateStr(now, 1)]
    ELSE IF Contains(text_lower, "day after tomorrow") \/ Contains(text_lower, "overmorrow")
    THEN [bd EXCEPT !.trip_date = DateStr(now, 2)]
    ELSE bd

\* _extract_booking_info(text) at wall-clock day `now`: the steps in the
\* order of the source
ExtractBookingInfo(bd, text, now) ==
    LET Steps(text_lower, m) ==
            LET b1 == ExtractFromTo(bd, m.from_to)
                b2 == ExtractConfirmation(b1, m.confirmation)
                b3 == ExtractBodyType(b2, text_lower)
                b4 == ExtractVehicleType(b3, text_lower, m)
                b5 == ExtractGoodsType(b4, text_lower)
            IN ExtractTripDate(b5, text_lower, now)
        Lowered(text_lower) == Steps(text_lower, MatchesOf(text_lower))
    IN Lowered(Lower(text))

\* a plausible slip: only the first update of a field is kept
log_booking_update_FirstOnly(updates, field, value) ==
    IF \E i \in 1..Len(updates) : updates[i].field = field THEN updates
    ELSE Append(updates, [field |-> field, value |-> value])

\* WorkflowLogger.log_booking_update (src/core/logger.py 146-161): the event
\* is appended to booking_updates
log_booking_update(updates, field, value) ==
    Append(updates, [field |-> field, value |-> value])

\* the log_booking_update calls of one _extract_booking_info(text), made
\* under `if self.logger` after each assignment; the innermost call is the
\* first of the source.  Every test reads the field as it is when its line
\* is reached: no earlier line of the same call writes body_type, goods_type
\* or trip_date, and the re-match and the fallback see the window's result.
ExtractBookingUpdates(updates, bd, text, now) ==
    LET When(assigned, u, field, value) ==
            IF assigned THEN log_booking_update(u, field, value) ELSE u
        Logged(text_lower, m) ==
            LET pickup == IF m.from_to = NoMatch THEN "" ELSE Title(Strip(m.from_to[1]))
                drop == IF m.from_to = NoMatch THEN "" ELSE Title(Strip(m.from_to[2]))
                cpickup == IF m.confirmation = NoMatch THEN ""
                           ELSE StripPrefixes(Title(Strip(m.confirmation[1])), 1)
                cdrop == IF m.confirmation = NoMatch THEN ""
                         ELSE StripPrefixes(Title(Strip(m.confirmation[2])), 1)
                windowed == ~Truthy(bd.vehicle_type) /\ m.window # None
                unmatched == ~Truthy(bd.vehicle_type) /\ ~windowed /\ m.truck = None
                goods == ExtractGoodsType(bd, text_lower).goods_type
                date == ExtractTripDate(bd, text_lower, now).trip_date
            IN \* lines 408-423
               When(date # bd.trip_date,
               \* lines 398-402
               When(goods # bd.goods_type,
               \* lines 382-390
               When(unmatched /\ (m.feet # NoMatch \/ Contains(text_lower, "truck")),
               \* lines 372-375
               When(m.truck # None,
               \* lines 348-351
               When(windowed,
               \* lines 253-260
               When(bd.body_type = None
                      /\ (Contains(text_lower, "open") \/ Contains(text_lower, "container")),
               \* lines 247-250
               When(cdrop # "" /\ Len(cdrop) > 2,
               \* lines 242-245
               When(cpickup # "" /\ Len(cpickup) > 2,
               \* lines 221-224
               When(m.from_to # NoMatch
                      /\ (~Truthy(bd.drop_location) \/ Len(drop) > LenOr(bd.drop_location)),
               \* lines 216-219
               When(m.from_to # NoMatch
                      /\ (~Truthy(bd.pickup_location)
                            \/ Len(pickup) > LenOr(bd.pickup_location)),
                    updates, "pickup_location", pickup),
                    "drop_location", drop),
                    "pickup_location", cpickup),
                    "drop_location", cdrop),
                    "body_type", IF Contains(text_lower, "open") THEN "Open" ELSE "Container"),
                    "vehicle_type", m.window),
                    "vehicle_type", m.truck),
                    "vehicle_type",
                    IF m.feet # NoMatch THEN m.feet[1] \o " Feet" ELSE "Truck"),
                    "goods_type", goods),
                    "trip_date", date)
        Lowered(text_lower) == Logged(text_lower, MatchesOf(text_lower))
    IN Lowered(Lower(text))

(***************************************************************************)
(* Confirmation policy (src/app/llm.py 425-467, 108-141).                 *)
(***************************************************************************)
confirmation_keywords ==
    <<"yes", "yeah", "yep", "ok", "okay", "correct", "right", "sure",
      "fine", "perfect", "that's right", "confirmed", "done",
      "absolutely", "exactly">>

rejection_keywords == <<"no", "not interested", "cancel", "don't want", "not now">>

\* a plausible slip: the confirmation branch without its "pending" guard
DetectConfirmation_ConfirmAlways(bd, text) ==
    LET text_lower == Lower(text)
        s1 == IF AnyIn(confirmation_keywords, text_lower)
              THEN "confirmed" ELSE bd.confirmation_status
        s2 == IF AnyIn(rejection_keywords, text_lower) /\ s1 = "pending"
              THEN "not_interested" ELSE s1
    IN [bd EXCEPT !.confirmation_status = s2]

\* a plausible slip: the rejection branch without its "pending" guard
DetectConfirmation_Unguarded(bd, text) ==
    LET text_lower == Lower(text)
        s1 == IF AnyIn(confirmation_keywords, text_lower)
                   /\ bd.confirmation_status = "pending"
              THEN "confirmed" ELSE bd.confirmation_status
        s2 == IF AnyIn(rejection_keywords, text_lower)
              THEN "not_interested" ELSE s1
    IN [bd EXCEPT !.confirmation_status = s2]

\* LLMAgent._detect_confirmation
DetectConfirmation(bd, text) ==
    LET text_lower == Lower(text)
        s1 == IF AnyIn(confirmation_keywords, text_lower)
                   /\ bd.confirmation_status = "pending"
              THEN "confirmed" ELSE bd.confirmation_status
        s2 == IF AnyIn(rejection_keywords, text_lower) /\ s1 = "pending"
              THEN "not_interested" ELSE s1
    IN [bd EXCEPT !.confirmation_status = s2]

\* LLMAgent.check_booking_confirmed_marker
CheckMarker(response_text) == Contains(response_text, "BOOKING_CONFIRMED")

closing_phrases ==
    <<"have a great day", "have a good day", "thank you for your time",
      "goodbye", "bye", "our sales person will contact you soon",
      "you can contact droptruck anytime">>

\* the last assistant message of the history, lower-cased; None if there is none
RECURSIVE LastAssistant(_)
LastAssistant(h) ==
    IF h = <<>> THEN None
    ELSE IF h[Len(h)].role = "assistant" THEN Lower(h[Len(h)].content)
    ELSE LastAssistant(SubSeq(h, 1, Len(h) - 1))

\* a plausible slip: only the marker ends the call, the closing phrases do not
is_call_complete_MarkerOnly(h) ==
    LET last_message == LastAssistant(h)
    IN IF h = <<>> THEN FALSE
       ELSE IF ~Truthy(last_message) THEN FALSE
       ELSE Contains(last_message, "booking_confirmed")

\* LLMAgent.is_call_complete
is_call_complete(h) ==
    LET last_message == LastAssistant(h)
    IN IF h = <<>> THEN FALSE
       ELSE IF ~Truthy(last_message) THEN FALSE
       ELSE IF Contains(last_message, "booking_confirmed") THEN TRUE
       ELSE AnyIn(closing_phrases, last_message)

(***************************************************************************)
(* LLMAgent.generate_response (src/app/llm.py 40-106).  The call is split  *)
(* where it blocks in _call_openai: the part before the request, and the   *)
(* handling of the reply or of the exception.                              *)
(***************************************************************************)
SYSTEM_PROMPT == "You are a polite and professional DropTruck AI Sales Agent."

\* LLMAgent.__init__
LLMInit(key, with_logger) ==
    /\ api_key = key
    /\ logger = with_logger
    /\ booking_updates = <<>>
    /\ conversation_history =
          IF key THEN <<[role |-> "system", content |-> SYSTEM_PROMPT]>> ELSE <<>>
    /\ booking_data = BookingDataInit
    /\ llm_pc = "idle"
    /\ user_text = None
    /\ response = None
    /\ clock = 0

\* a plausible slip: echo mode records the exchange like a real one
GenerateResponseBegin_EchoRecords(text) ==
    /\ llm_pc = "idle"
    /\ Len(conversation_history) < 2 * MaxTurns
    /\ IF text = "" \/ Strip(text) = ""
       THEN /\ response' = "I didn't catch that. Could you please repeat?"
            /\ UNCHANGED <<conversation_history, booking_data, llm_pc, user_text,
                           booking_updates>>
       ELSE /\ booking_data' =
                  DetectConfirmation(ExtractBookingInfo(booking_data, text, clock), text)
            /\ booking_updates' =
                  IF logger
                  THEN ExtractBookingUpdates(booking_updates, booking_data, text, clock)
                  ELSE booking_updates
            /\ IF ~api_key
               THEN /\ response' = "[Echo Mode] You said: " \o text
                    /\ conversation_history' =
                          conversation_history \o
                             <<[role |-> "user", content |-> text],
                               [role |-> "assistant",
                                content |-> "[Echo Mode] You said: " \o text]>>
                    /\ UNCHANGED <<llm_pc, user_text>>
               ELSE /\ conversation_history' =
                          Append(conversation_history, [role |-> "user", content |-> text])
                    /\ llm_pc' = "calling"
                    /\ user_text' = text
                    /\ UNCHANGED response
    /\ UNCHANGED <<api_key, clock, logger>>

\* lines 50-70: up to the request
GenerateResponseBegin(text) ==
    /\ llm_pc = "idle"
    /\ Len(conversation_history) < 2 * MaxTurns
    /\ IF text = "" \/ Strip(text) = ""
       THEN /\ response' = "I didn't catch that. Could you please repeat?"
            /\ UNCHANGED <<conversation_history, booking_data, llm_pc, user_text,
                           booking_updates>>
       ELSE /\ booking_data' =
                  DetectConfirmation(ExtractBookingInfo(booking_data, text, clock), text)
            /\ booking_updates' =
                  IF logger
                  THEN ExtractBookingUpdates(booking_updates, booking_data, text, clock)
                  ELSE booking_updates
            /\ IF ~api_key
               THEN /\ response' = "[Echo Mode] You said: " \o text
                    /\ UNCHANGED <<conversation_history, llm_pc, user_text>>
               ELSE /\ conversation_history' =
                          Append(conversation_history, [role |-> "user", content |-> text])
                    /\ llm_pc' = "calling"
                    /\ user_text' = text
                    /\ UNCHANGED response
    /\ UNCHANGED <<api_key, clock, logger>>

\* a plausible slip: the marker confirms only a pending booking
HandleReply_PendingOnly(bd, response_text, now) ==
    LET b1 == ExtractBookingInfo(bd, response_text, now)
    IN IF CheckMarker(response_text) /\ b1.confirmation_status = "pending"
       THEN [b1 EXCEPT !.confirmation_status = "confirmed"]
       ELSE b1

\* lines 80-87: extraction from the reply, then the marker forces "confirmed"
HandleReply(bd, response_text, now) ==
    LET b1 == ExtractBookingInfo(bd, response_text, now)
    IN IF CheckMarker(response_text)
       THEN [b1 EXCEPT !.confirmation_status = "confirmed"]
       ELSE b1

\* lines 77-99: _call_openai returned response_text
CallOpenAIReturns(response_text) ==
    /\ llm_pc = "calling"
    /\ booking_data' = HandleReply(booking_data, response_text, clock)
    /\ booking_updates' =
          IF logger
          THEN ExtractBookingUpdates(booking_updates, booking_data, response_text, clock)
          ELSE booking_updates
    /\ conversation_history' =
          Append(conversation_history, [role |-> "assistant", content |-> response_text])
    /\ response' = response_text
    /\ llm_pc' = "idle"
    /\ user_text' = None
    /\ UNCHANGED <<api_key, clock, logger>>

\* a plausible slip: the fallback reply is recorded in the history like a
\* reply of the model
CallOpenAIRaises_RecordsFallback ==
    /\ llm_pc = "calling"
    /\ response' = "I'm having trouble processing that right now. Could you try again?"
    /\ conversation_history' =
          Append(conversation_history,
                 [role |-> "assistant",
                  content |-> "I'm having trouble processing that right now. Could you try again?"])
    /\ llm_pc' = "idle"
    /\ user_text' = None
    /\ UNCHANGED <<api_key, booking_data, clock, logger, booking_updates>>

\* lines 101-106: _call_openai raised (a non-200 status, a timeout, ...)
CallOpenAIRaises ==
    /\ llm_pc = "calling"
    /\ response' = "I'm having trouble processing that right now. Could you try again?"
    /\ llm_pc' = "idle"
    /\ user_text' = None
    /\ UNCHANGED <<api_key, conversation_history, booking_data, clock, logger,
                   booking_updates>>

\* midnight passes during a call
Tick ==
    /\ clock < MaxDay
    /\ clock' = clock + 1
    /\ UNCHANGED <<api_key, conversation_history, booking_data, llm_pc, user_text,
                   response, logger, booking_updates>>

\* _extract_booking_info and _detect_confirmation called on their own, as
\* src/tests/simulate_conversation.py calls them
ExtractBookingInfoCall(text) ==
    /\ llm_pc = "idle"
    /\ Len(booking_updates) < MaxUpdates
    /\ booking_data' = ExtractBookingInfo(booking_data, text, clock)
    /\ booking_updates' =
          IF logger
          THEN ExtractBookingUpdates(booking_updates, booking_data, text, clock)
          ELSE booking_updates
    /\ UNCHANGED <<api_key, conversation_history, llm_pc, user_text, response, clock,
                   logger>>

DetectConfirmationCall(text) ==
    /\ llm_pc = "idle"
    /\ booking_data' = DetectConfirmation(booking_data, text)
    /\ UNCHANGED <<api_key, conversation_history, llm_pc, user_text, response, clock,
                   logger, booking_updates>>

(***************************************************************************)
(* ConversationRecorder (src/core/audio_recorder.py).                      *)
(*                                                                         *)
(* A file is [fmt, ok, data]: a WAV file's data are its PCM bytes or, for  *)
(* the merged file, the exported timeline; an MP3 file's data name the     *)
(* reply it holds, and ok says whether a decoder can read it.              *)
(***************************************************************************)
user_audio_path == "user_input.wav"

conversation_path == "full_conversation.wav"

\* TextToSpeech.synthesize names its files assistant_reply_<timestamp>.mp3
ReplyPath(k) == "assistant_reply_" \o Digit(k) \o ".mp3"

ReplyPaths == {ReplyPath(k) : k \in 1..MaxReplies}

Paths == {user_audio_path, conversation_path} \cup ReplyPaths

NoFile == [fmt |-> "none", ok |-> FALSE, data |-> <<>>]

Exists(fs, p) == fs[p] # NoFile

\* the bytes of the k-th frame the audio driver delivers: indata.tobytes()
Frame(k) == <<2 * k - 1, 2 * k>>

\* b''.join(chunks)
RECURSIVE Join(_)
Join(chunks) == IF chunks = <<>> THEN <<>> ELSE Head(chunks) \o Join(Tail(chunks))

\* AudioSegment.silent(duration = ms)
Silent(ms) == [kind |-> "silence", ms |-> ms, data |-> <<>>]

\* AudioSegment.from_wav(file): the timeline holding the file's PCM data
FromWav(f) == <<[kind |-> "user", ms |-> 0, data |-> f.data]>>

\* AudioSegment.from_mp3(file), for a file the decoder can read
FromMp3(f) == <<[kind |-> "reply", ms |-> 0, data |-> f.data]>>

\* ConversationRecorder.__init__ in a fresh session directory
RecorderInit ==
    /\ user_audio_buffer = <<>>
    /\ recording_active = FALSE
    /\ lock = "free"
    /\ files = [p \in Paths |-> NoFile]
    /\ assistant_responses = <<>>
    /\ cap_pc = "idle"
    /\ cap_chunk = <<>>
    /\ next_chunk = 1
    /\ rec_pc = "idle"
    /\ audio_data = <<>>
    /\ conversation = <<>>
    /\ last_return = [op |-> "__init__", value |-> None]
    /\ merge_begun = FALSE

\* ---- add_audio_chunk, on the audio driver's thread (lines 53-63)
\* line 61: recording_active is read without the lock
AddAudioChunkCheck ==
    /\ cap_pc = "idle"
    /\ next_chunk <= MaxChunks
    /\ cap_chunk' = Frame(next_chunk)
    /\ next_chunk' = next_chunk + 1
    /\ cap_pc' = IF recording_active THEN "wait_lock" ELSE "idle"
    /\ UNCHANGED <<user_audio_buffer, recording_active, lock, files,
                   assistant_responses, rec_pc, audio_data, last_return, conversation, merge_begun>>

\* line 62: with self.lock
AddAudioChunkAcquire ==
    /\ cap_pc = "wait_lock"
    /\ lock = "free"
    /\ lock' = "capture"
    /\ cap_pc' = "locked"
    /\ UNCHANGED <<user_audio_buffer, recording_active, files, assistant_responses,
                   cap_chunk, next_chunk, rec_pc, audio_data, last_return, conversation, merge_begun>>

\* line 63: append, and the lock is released
AddAudioChunkAppend ==
    /\ cap_pc = "locked"
    /\ user_audio_buffer' = Append(user_audio_buffer, cap_chunk)
    /\ lock' = "free"
    /\ cap_pc' = "idle"
    /\ UNCHANGED <<recording_active, files, assistant_responses, cap_chunk,
                   next_chunk, rec_pc, audio_data, last_return, conversation, merge_begun>>

\* ---- start_recording, on the processing thread (lines 46-51)
StartRecordingAcquire ==
    /\ rec_pc = "idle"
    /\ lock = "free"
    /\ lock' = "main"
    /\ rec_pc' = "start_locked"
    /\ UNCHANGED <<user_audio_buffer, recording_active, files, assistant_responses,
                   cap_pc, cap_chunk, next_chunk, audio_data, last_return, conversation, merge_begun>>

\* a plausible slip: the flag is set but the old frames are kept
StartRecordingBody_NoClear ==
    /\ rec_pc = "start_locked"
    /\ recording_active' = TRUE
    /\ lock' = "free"
    /\ rec_pc' = "idle"
    /\ last_return' = [op |-> "start_recording", value |-> None]
    /\ UNCHANGED <<user_audio_buffer, files, assistant_responses, cap_pc, cap_chunk,
                   next_chunk, audio_data, conversation, merge_begun>>

StartRecordingBody ==
    /\ rec_pc = "start_locked"
    /\ recording_active' = TRUE
    /\ user_audio_buffer' = <<>>
    /\ lock' = "free"
    /\ rec_pc' = "idle"
    /\ last_return' = [op |-> "start_recording", value |-> None]
    /\ UNCHANGED <<files, assistant_responses, cap_pc, cap_chunk, next_chunk,
                   audio_data, conversation, merge_begun>>

\* ---- stop_recording, on the processing thread (lines 65-72)
StopRecordingAcquire ==
    /\ rec_pc = "idle"
    /\ lock = "free"
    /\ lock' = "main"
    /\ rec_pc' = "stop_locked"
    /\ UNCHANGED <<user_audio_buffer, recording_active, files, assistant_responses,
                   cap_pc, cap_chunk, next_chunk, audio_data, last_return, conversation, merge_begun>>

\* a plausible slip: the whole of stop_recording under the lock, so the lock
\* is still held during the buffer test, the join and the file write
StopRecordingBody_KeepsLock ==
    /\ rec_pc = "stop_locked"
    /\ recording_active' = FALSE
    /\ rec_pc' = "stop_check"
    /\ UNCHANGED <<user_audio_buffer, lock, files, assistant_responses, cap_pc,
                   cap_chunk, next_chunk, audio_data, last_return, conversation,
                   merge_begun>>

\* line 68, and the lock is released
StopRecordingBody ==
    /\ rec_pc = "stop_locked"
    /\ recording_active' = FALSE
    /\ lock' = "free"
    /\ rec_pc' = "stop_check"
    /\ UNCHANGED <<user_audio_buffer, files, assistant_responses, cap_pc, cap_chunk,
                   next_chunk, audio_data, last_return, conversation, merge_begun>>

\* a plausible slip: the file is written whether or not the buffer holds
\* anything, so an empty buffer leaves an empty WAV file behind
StopRecordingCheck_WritesEmpty ==
    /\ rec_pc = "stop_check"
    /\ IF user_audio_buffer # <<>>
       THEN /\ rec_pc' = "save_join"
            /\ UNCHANGED <<last_return, files>>
       ELSE /\ rec_pc' = "idle"
            /\ files' = [files EXCEPT ![user_audio_path] =
                            [fmt |-> "wav", ok |-> TRUE, data |-> <<>>]]
            /\ last_return' = [op |-> "stop_recording", value |-> None]
    /\ UNCHANGED <<user_audio_buffer, recording_active, lock,
                   assistant_responses, cap_pc, cap_chunk, next_chunk, audio_data,
                   conversation, merge_begun>>

\* line 70: the buffer is read without the lock
StopRecordingCheck ==
    /\ rec_pc = "stop_check"
    /\ IF user_audio_buffer # <<>>
       THEN /\ rec_pc' = "save_join"
            /\ UNCHANGED last_return
       ELSE /\ rec_pc' = "idle"
            /\ last_return' = [op |-> "stop_recording", value |-> None]
    /\ UNCHANGED <<user_audio_buffer, recording_active, lock, files,
                   assistant_responses, cap_pc, cap_chunk, next_chunk, audio_data,
                   conversation, merge_begun>>

\* _save_user_audio lines 76-80: the buffer is joined, without the lock
SaveUserAudioJoin ==
    /\ rec_pc = "save_join"
    /\ IF user_audio_buffer = <<>>
       THEN /\ rec_pc' = "idle"
            /\ last_return' = [op |-> "stop_recording", value |-> None]
            /\ UNCHANGED audio_data
       ELSE /\ audio_data' = Join(user_audio_buffer)
            /\ rec_pc' = "save_write"
            /\ UNCHANGED last_return
    /\ UNCHANGED <<user_audio_buffer, recording_active, lock, files,
                   assistant_responses, cap_pc, cap_chunk, next_chunk, conversation, merge_begun>>

\* a plausible slip: the buffer is emptied once it has been written out
SaveUserAudioWrite_ClearsBuffer ==
    /\ rec_pc = "save_write"
    /\ files' = [files EXCEPT ![user_audio_path] =
                    [fmt |-> "wav", ok |-> TRUE, data |-> audio_data]]
    /\ audio_data' = <<>>
    /\ user_audio_buffer' = <<>>
    /\ rec_pc' = "idle"
    /\ last_return' = [op |-> "stop_recording", value |-> None]
    /\ UNCHANGED <<recording_active, lock, assistant_responses,
                   cap_pc, cap_chunk, next_chunk, conversation, merge_begun>>

\* _save_user_audio lines 83-87: the WAV file is written
SaveUserAudioWrite ==
    /\ rec_pc = "save_write"
    /\ files' = [files EXCEPT ![user_audio_path] =
                    [fmt |-> "wav", ok |-> TRUE, data |-> audio_data]]
    /\ audio_data' = <<>>
    /\ rec_pc' = "idle"
    /\ last_return' = [op |-> "stop_recording", value |-> None]
    /\ UNCHANGED <<user_audio_buffer, recording_active, lock, assistant_responses,
                   cap_pc, cap_chunk, next_chunk, conversation, merge_begun>>

\* ---- add_assistant_response (lines 89-97)
AddAssistantResponse(audio_file_path) ==
    /\ rec_pc = "idle"
    /\ Len(assistant_responses) < MaxReplies
    /\ audio_file_path = ReplyPath(Len(assistant_responses) + 1)
    /\ assistant_responses' = Append(assistant_responses, audio_file_path)
    /\ last_return' = [op |-> "add_assistant_response", value |-> None]
    /\ UNCHANGED <<user_audio_buffer, recording_active, lock, files, cap_pc,
                   cap_chunk, next_chunk, rec_pc, audio_data, conversation, merge_begun>>

\* ---- get_recording_stats (lines 182-198), on the processing thread
\* a plausible slip: the replies are counted by the files that exist
RecordingStats_CountsFiles(fs, replies) ==
    [user_audio_exists |-> Exists(fs, user_audio_path),
     assistant_responses |-> Cardinality({p \in ReplyPaths : Exists(fs, p)}),
     conversation_exists |-> Exists(fs, conversation_path),
     user_audio_size |->
         IF Exists(fs, user_audio_path) THEN Len(fs[user_audio_path].data) ELSE 0,
     conversation_size |->
         IF Exists(fs, conversation_path) THEN Len(fs[conversation_path].data) ELSE 0]

\* the dictionary built at lines 184-196; a size is the length of the file's
\* content, 0 standing for a key that is not set
RecordingStats(fs, replies) ==
    [user_audio_exists |-> Exists(fs, user_audio_path),
     assistant_responses |-> Len(replies),
     conversation_exists |-> Exists(fs, conversation_path),
     user_audio_size |->
         IF Exists(fs, user_audio_path) THEN Len(fs[user_audio_path].data) ELSE 0,
     conversation_size |->
         IF Exists(fs, conversation_path) THEN Len(fs[conversation_path].data) ELSE 0]

GetRecordingStats ==
    /\ rec_pc = "idle"
    /\ last_return' = [op |-> "get_recording_stats", value |-> None,
                       stats |-> RecordingStats(files, assistant_responses)]
    /\ UNCHANGED <<user_audio_buffer, recording_active, lock, files,
                   assistant_responses, cap_pc, cap_chunk, next_chunk, rec_pc,
                   audio_data, conversation, merge_begun>>

\* ---- merge_conversation (lines 99-158), on the processing thread
\* the loop of lines 123-133 over the registered paths: a missing file is
\* passed over; from_mp3 raises on a file it cannot decode
RECURSIVE MergeReplies_PauseFirst(_, _, _)
\* a plausible slip: the pause is appended before the existence test, so a
\* missing reply still leaves its 300 ms of silence in the timeline
MergeReplies_PauseFirst(conv, fs, paths) ==
    IF paths = <<>> THEN [raised |-> FALSE, conversation |-> conv]
    ELSE IF ~Exists(fs, Head(paths))
    THEN MergeReplies_PauseFirst(conv \o <<Silent(300)>>, fs, Tail(paths))
    ELSE IF ~fs[Head(paths)].ok THEN [raised |-> TRUE, conversation |-> conv]
    ELSE MergeReplies_PauseFirst(conv \o <<Silent(300)>> \o FromMp3(fs[Head(paths)]),
                                 fs, Tail(paths))

RECURSIVE MergeReplies(_, _, _)
MergeReplies(conv, fs, paths) ==
    IF paths = <<>> THEN [raised |-> FALSE, conversation |-> conv]
    ELSE IF ~Exists(fs, Head(paths)) THEN MergeReplies(conv, fs, Tail(paths))
    ELSE IF ~fs[Head(paths)].ok THEN [raised |-> TRUE, conversation |-> conv]
    ELSE MergeReplies(conv \o <<Silent(300)>> \o FromMp3(fs[Head(paths)]),
                      fs, Tail(paths))

\* a plausible slip: only the user audio file is removed
CleanupIntermediateFiles_KeepReplies(fs, paths) ==
    [p \in Paths |-> IF p = user_audio_path THEN NoFile ELSE fs[p]]

\* a plausible slip: only the reply files are removed
CleanupIntermediateFiles_KeepUser(fs, paths) ==
    [p \in Paths |->
        IF \E i \in 1..Len(paths) : paths[i] = p THEN NoFile ELSE fs[p]]

\* _cleanup_intermediate_files (lines 160-180)
CleanupIntermediateFiles(fs, paths) ==
    [p \in Paths |->
        IF p = user_audio_path \/ (\E i \in 1..Len(paths) : paths[i] = p)
        THEN NoFile ELSE fs[p]]

\* a plausible slip: the intermediate files are cleaned up on the early return
MergeBuild_CleanupOnReturn(fs, paths) ==
    IF ~Exists(fs, user_audio_path)
    THEN [next |-> "return", files |-> CleanupIntermediateFiles(fs, paths),
          conversation |-> <<>>]
    ELSE LET r == MergeReplies(<<Silent(500)>> \o FromWav(fs[user_audio_path]), fs, paths)
         IN IF r.raised
            THEN [next |-> "return", files |-> fs, conversation |-> <<>>]
            ELSE [next |-> "export", files |-> fs,
                  conversation |-> r.conversation \o <<Silent(500)>>]

\* lines 108-136: the timeline is built, or the call returns None (no user
\* audio: line 111; an exception: line 158)
MergeBuild(fs, paths) ==
    IF ~Exists(fs, user_audio_path)
    THEN [next |-> "return", files |-> fs, conversation |-> <<>>]
    ELSE LET r == MergeReplies(<<Silent(500)>> \o FromWav(fs[user_audio_path]), fs, paths)
         IN IF r.raised
            THEN [next |-> "return", files |-> fs, conversation |-> <<>>]
            ELSE [next |-> "export", files |-> fs,
                  conversation |-> r.conversation \o <<Silent(500)>>]

\* how conversation.export ends: it returns, it raises before the destination
\* is opened, or it raises after the destination was opened for writing
ExportOutcomes == {"ok", "raises", "raises_after_open"}

\* a plausible slip: the cleanup in a finally clause, run on failure too
MergeExport_CleanupAlways(fs, paths, conv, outcome) ==
    IF outcome = "ok"
    THEN [files |-> CleanupIntermediateFiles(
                       [fs EXCEPT ![conversation_path] =
                           [fmt |-> "wav", ok |-> TRUE, data |-> conv]], paths),
          value |-> conversation_path]
    ELSE [files |-> CleanupIntermediateFiles(fs, paths), value |-> None]

\* lines 139-158: export, cleanup and the value returned
MergeExport(fs, paths, conv, outcome) ==
    IF outcome = "ok"
    THEN [files |-> CleanupIntermediateFiles(
                       [fs EXCEPT ![conversation_path] =
                           [fmt |-> "wav", ok |-> TRUE, data |-> conv]], paths),
          value |-> conversation_path]
    ELSE IF outcome = "raises_after_open"
    THEN [files |-> [fs EXCEPT ![conversation_path] =
                        [fmt |-> "wav", ok |-> FALSE, data |-> <<>>]],
          value |-> None]
    ELSE [files |-> fs, value |-> None]

\* lines 105-106: the call is entered
MergeConversationBegin ==
    /\ rec_pc = "idle"
    /\ rec_pc' = "merge"
    /\ merge_begun' = TRUE
    /\ UNCHANGED <<user_audio_buffer, recording_active, lock, files,
                   assistant_responses, cap_pc, cap_chunk, next_chunk, audio_data,
                   conversation, last_return>>

MergeConversationBuild ==
    /\ rec_pc = "merge"
    /\ LET r == MergeBuild(files, assistant_responses)
       IN /\ files' = r.files
          /\ conversation' = r.conversation
          /\ IF r.next = "export"
             THEN /\ rec_pc' = "export"
                  /\ UNCHANGED last_return
             ELSE /\ rec_pc' = "idle"
                  /\ last_return' = [op |-> "merge_conversation", value |-> None]
    /\ UNCHANGED <<user_audio_buffer, recording_active, lock, assistant_responses,
                   cap_pc, cap_chunk, next_chunk, audio_data, merge_begun>>

MergeConversationExport(outcome) ==
    /\ rec_pc = "export"
    /\ LET r == MergeExport(files, assistant_responses, conversation, outcome)
       IN /\ files' = r.files
          /\ last_return' = [op |-> "merge_conversation", value |-> r.value]
    /\ conversation' = <<>>
    /\ rec_pc' = "idle"
    /\ UNCHANGED <<user_audio_buffer, recording_active, lock, assistant_responses,
                   cap_pc, cap_chunk, next_chunk, audio_data, merge_begun>>

\* ---- the reply artifacts, written and removed outside the recorder
\* TextToSpeech.synthesize with save_individual_files (src/app/tts.py 70-77)
\* writes whatever bytes the provider streamed, decodable or not
SynthesizeToFile(decodable) ==
    /\ rec_pc = "idle"
    /\ Len(assistant_responses) < MaxReplies
    /\ LET k == Len(assistant_responses) + 1
       IN /\ ~Exists(files, ReplyPath(k))
          /\ files' = [files EXCEPT ![ReplyPath(k)] =
                          [fmt |-> "mp3", ok |-> decodable, data |-> <<k>>]]
    /\ UNCHANGED <<user_audio_buffer, recording_active, lock, assistant_responses,
                   cap_pc, cap_chunk, next_chunk, rec_pc, audio_data, last_return,
                   conversation, merge_begun>>

\* TextToSpeech.cleanup_old_files (src/app/tts.py 211-228) removes a file
RemoveOldFile(p) ==
    /\ p \in ReplyPaths
    /\ Exists(files, p)
    /\ files' = [files EXCEPT ![p] = NoFile]
    /\ UNCHANGED <<user_audio_buffer, recording_active, lock, assistant_responses,
                   cap_pc, cap_chunk, next_chunk, rec_pc, audio_data, last_return,
                   conversation, merge_begun>>

(***************************************************************************)
(* VoiceAgent (src/main.py): state after __init__ up to the recorder's     *)
(* start_recording call of line 45.                                        *)
(***************************************************************************)
AgentInit ==
    /\ agent_pc = "init"
    /\ current_transcript = <<>>
    /\ segment_ready = FALSE
    /\ call_complete = FALSE
    /\ stream_open = FALSE
    /\ stt_listening = FALSE
    /\ stt_pc = "idle"
    /\ transcripts_sent = 0
    /\ loop_text = ""
    /\ api_sent = 0
    /\ exit_status = "running"
    /\ audio_responses = <<>>

\* __init__ line 45: start_recording, before any other thread exists
VoiceAgentInit ==
    /\ agent_pc = "init"
    /\ (StartRecordingAcquire \/ StartRecordingBody)
    /\ agent_pc' = IF rec_pc' = "idle" THEN "run" ELSE "init"
    /\ UNCHANGED <<current_transcript, segment_ready, call_complete, stream_open,
                   stt_listening, stt_pc, transcripts_sent, loop_text, api_sent,
                   exit_status>>
    /\ UNCHANGED llm_vars
    /\ UNCHANGED audio_responses

\* how run() lines 121-157 end: the listener and the input stream are started,
\* stt.start raises (src/app/stt.py 43-45), or sd.InputStream raises
StartOutcomes == {"ok", "stt_fails", "stream_fails"}

\* run() lines 120-157; an exception is caught at line 182 and run() goes on
\* to its finally clause
RunStart(outcome) ==
    /\ agent_pc = "run"
    /\ stt_listening' = (outcome # "stt_fails")
    /\ stream_open' = (outcome = "ok")
    /\ agent_pc' = IF outcome = "ok" THEN "loop" ELSE "shutdown"
    /\ UNCHANGED <<current_transcript, segment_ready, call_complete, stt_pc,
                   transcripts_sent, loop_text, api_sent, exit_status>>
    /\ UNCHANGED <<llm_vars, rec_vars>>
    /\ UNCHANGED audio_responses

\* audio_callback (lines 138-150), on the audio driver's thread while the
\* input stream is open: add_audio_chunk
AudioCallback ==
    /\ \/ stream_open /\ AddAudioChunkCheck
       \/ AddAudioChunkAcquire
       \/ AddAudioChunkAppend
    /\ UNCHANGED <<llm_vars, agent_vars>>

\* SpeechToText._on_message (src/app/stt.py 51-65) with a transcript, on the
\* listener thread: on_transcript (main.py 70-73) has run
OnMessageTranscript(text, is_final) ==
    /\ stt_listening
    /\ stt_pc = "idle"
    /\ transcripts_sent < MaxSegments
    /\ transcripts_sent' = transcripts_sent + 1
    /\ current_transcript' = Append(current_transcript, text)
    /\ stt_pc' = IF is_final THEN "final" ELSE "idle"
    /\ UNCHANGED <<agent_pc, segment_ready, call_complete, stream_open,
                   stt_listening, loop_text, api_sent, exit_status>>
    /\ UNCHANGED <<llm_vars, rec_vars>>
    /\ UNCHANGED audio_responses

\* src/app/stt.py 63-65: on_final (main.py 75-77) for a final transcript
OnMessageFinal ==
    /\ stt_pc = "final"
    /\ segment_ready' = TRUE
    /\ stt_pc' = "idle"
    /\ UNCHANGED <<agent_pc, current_transcript, call_complete, stream_open,
                   stt_listening, transcripts_sent, loop_text, api_sent, exit_status>>
    /\ UNCHANGED <<llm_vars, rec_vars>>
    /\ UNCHANGED audio_responses

\* src/app/stt.py 67-70: a message without transcript whose speech_final is set
OnSpeechFinal ==
    /\ stt_listening
    /\ stt_pc = "idle"
    /\ segment_ready' = TRUE
    /\ UNCHANGED <<agent_pc, current_transcript, call_complete, stream_open,
                   stt_listening, stt_pc, transcripts_sent, loop_text, api_sent,
                   exit_status>>
    /\ UNCHANGED <<llm_vars, rec_vars>>
    /\ UNCHANGED audio_responses

\* run() lines 160-162: the test of call_complete; leaving the `with` block
\* closes the input stream, which waits for a callback in flight
LoopCheckComplete ==
    /\ agent_pc = "loop"
    /\ IF call_complete
       THEN /\ cap_pc = "idle"
            /\ stream_open' = FALSE
            /\ agent_pc' = "shutdown"
       ELSE /\ agent_pc' = "loop_segment"
            /\ UNCHANGED stream_open
    /\ UNCHANGED <<current_transcript, segment_ready, call_complete, stt_listening,
                   stt_pc, transcripts_sent, loop_text, api_sent, exit_status>>
    /\ UNCHANGED <<llm_vars, rec_vars>>
    /\ UNCHANGED audio_responses

\* run() lines 165-166, or the sleep of line 176
LoopCheckSegment ==
    /\ agent_pc = "loop_segment"
    /\ IF segment_ready
       THEN segment_ready' = FALSE /\ agent_pc' = "loop_join"
       ELSE UNCHANGED segment_ready /\ agent_pc' = "loop"
    /\ UNCHANGED <<current_transcript, call_complete, stream_open, stt_listening,
                   stt_pc, transcripts_sent, loop_text, api_sent, exit_status>>
    /\ UNCHANGED <<llm_vars, rec_vars>>
    /\ UNCHANGED audio_responses

\* run() line 169
LoopJoin ==
    /\ agent_pc = "loop_join"
    /\ loop_text' = Strip(JoinSpace(current_transcript))
    /\ agent_pc' = "loop_clear"
    /\ UNCHANGED <<current_transcript, segment_ready, call_complete, stream_open,
                   stt_listening, stt_pc, transcripts_sent, api_sent, exit_status>>
    /\ UNCHANGED <<llm_vars, rec_vars>>
    /\ UNCHANGED audio_responses

\* run() lines 170-172
LoopClear ==
    /\ agent_pc = "loop_clear"
    /\ current_transcript' = <<>>
    /\ agent_pc' = IF loop_text # "" THEN "process" ELSE "loop"
    /\ UNCHANGED <<segment_ready, call_complete, stream_open, stt_listening,
                   stt_pc, transcripts_sent, loop_text, api_sent, exit_status>>
    /\ UNCHANGED <<llm_vars, rec_vars>>
    /\ UNCHANGED audio_responses

\* process_user_input lines 92-99: generate_response is called
ProcessUserInput ==
    /\ agent_pc = "process"
    /\ IF Strip(loop_text) = ""
       THEN agent_pc' = "loop" /\ UNCHANGED llm_vars
       ELSE /\ GenerateResponseBegin(loop_text)
            /\ agent_pc' = IF llm_pc' = "calling" THEN "llm_wait" ELSE "tts"
    /\ UNCHANGED <<current_transcript, segment_ready, call_complete, stream_open,
                   stt_listening, stt_pc, transcripts_sent, loop_text, api_sent,
                   exit_status>>
    /\ UNCHANGED rec_vars
    /\ UNCHANGED audio_responses

\* generate_response returns to process_user_input (line 99)
GenerateResponseEnd ==
    /\ agent_pc = "llm_wait"
    /\ \/ \E text \in ReplyTexts : CallOpenAIReturns(text)
       \/ CallOpenAIRaises
    /\ agent_pc' = "tts"
    /\ UNCHANGED <<current_transcript, segment_ready, call_complete, stream_open,
                   stt_listening, stt_pc, transcripts_sent, loop_text, api_sent,
                   exit_status>>
    /\ UNCHANGED rec_vars
    /\ UNCHANGED audio_responses

\* main.py line 55 constructs TextToSpeech without save_individual_files,
\* whose default (src/app/tts.py line 15) is False
save_individual_files == FALSE

\* what TextToSpeech.synthesize returns (src/app/tts.py 41-111): "" for an
\* empty text, after a failure (synthesized is FALSE: the provider call or
\* the playback raised), and whenever the audio is kept in memory
SynthesizeReturn(text, k, synthesized) ==
    IF text = "" \/ Strip(text) = "" THEN ""
    ELSE IF ~synthesized THEN ""
    ELSE IF save_individual_files THEN ReplyPath(k) ELSE ""

\* process_user_input lines 103-116: synthesis and playback, registration of
\* the reply's file if there is one, and the test for the end of the call
ProcessUserInputEnd(synthesized) ==
    /\ agent_pc = "tts"
    /\ audio_responses' =
          IF Strip(response) # "" /\ synthesized /\ ~save_individual_files
          THEN Append(audio_responses, Len(audio_responses) + 1)
          ELSE audio_responses
    /\ LET audio_path ==
              SynthesizeReturn(response, Len(assistant_responses) + 1, synthesized)
       IN IF audio_path # ""
          THEN /\ files' = [files EXCEPT ![audio_path] =
                               [fmt |-> "mp3", ok |-> TRUE,
                                data |-> <<Len(assistant_responses) + 1>>]]
               /\ assistant_responses' = Append(assistant_responses, audio_path)
               /\ last_return' = [op |-> "add_assistant_response", value |-> None]
               /\ UNCHANGED <<user_audio_buffer, recording_active, lock, cap_pc,
                              cap_chunk, next_chunk, rec_pc, audio_data,
                              conversation, merge_begun>>
          ELSE UNCHANGED rec_vars
    /\ call_complete' = (call_complete \/ is_call_complete(conversation_history))
    /\ agent_pc' = "loop"
    /\ UNCHANGED <<current_transcript, segment_ready, stream_open, stt_listening,
                   stt_pc, transcripts_sent, loop_text, api_sent, exit_status>>
    /\ UNCHANGED llm_vars

\* positions of the main thread inside run()'s try block
InRun ==
    {"run", "loop", "loop_segment", "loop_join", "loop_clear", "process",
     "llm_wait", "tts"}

\* Ctrl+C while run() is in its try block (lines 178-180): the calls in
\* flight are unwound, the input stream is closed, and run() goes on to its
\* finally clause
KeyboardInterrupt ==
    /\ agent_pc \in InRun
    /\ cap_pc = "idle"
    /\ stream_open' = FALSE
    /\ llm_pc' = "idle"
    /\ user_text' = None
    /\ agent_pc' = "shutdown"
    /\ UNCHANGED <<current_transcript, segment_ready, call_complete, stt_listening,
                   stt_pc, transcripts_sent, loop_text, api_sent, exit_status>>
    /\ UNCHANGED <<api_key, conversation_history, booking_data, response, clock,
                   logger, booking_updates>>
    /\ UNCHANGED rec_vars
    /\ UNCHANGED audio_responses

\* shutdown lines 194-198: stt.stop()
ShutdownStopSTT ==
    /\ agent_pc = "shutdown"
    /\ stt_listening' = FALSE
    /\ agent_pc' = "stop_recording"
    /\ UNCHANGED <<current_transcript, segment_ready, call_complete, stream_open,
                   stt_pc, transcripts_sent, loop_text, api_sent, exit_status>>
    /\ UNCHANGED <<llm_vars, rec_vars>>
    /\ UNCHANGED audio_responses

\* shutdown lines 201-205: stop_recording, then the sleep
ShutdownStopRecording ==
    /\ agent_pc = "stop_recording"
    /\ \/ StopRecordingAcquire
       \/ StopRecordingBody
       \/ StopRecordingCheck
       \/ SaveUserAudioJoin
       \/ SaveUserAudioWrite
    /\ agent_pc' = IF rec_pc' = "idle" THEN "summary" ELSE "stop_recording"
    /\ UNCHANGED <<current_transcript, segment_ready, call_complete, stream_open,
                   stt_listening, stt_pc, transcripts_sent, loop_text, api_sent,
                   exit_status>>
    /\ UNCHANGED llm_vars
    /\ UNCHANGED audio_responses

\* shutdown lines 208-256.  print_booking_summary prints the booking record
\* (line 261); an exception raised there leaves shutdown and run() and is
\* caught by main() (lines 272-276), which exits with status 1.  Otherwise
\* the conversation is merged and the booking is sent if it is confirmed.
ShutdownFinish(outcome) ==
    /\ agent_pc = "summary"
    /\ IF StrRaises(booking_data)
       THEN /\ exit_status' = "error"
            /\ UNCHANGED <<api_sent, rec_vars>>
       ELSE LET b == MergeBuild(files, assistant_responses)
                e == MergeExport(b.files, assistant_responses, b.conversation, outcome)
            IN /\ merge_begun' = TRUE
               /\ conversation' = <<>>
               /\ files' = IF b.next = "export" THEN e.files ELSE b.files
               /\ last_return' =
                     [op |-> "merge_conversation",
                      value |-> IF b.next = "export" THEN e.value ELSE None]
               /\ api_sent' = IF booking_data.confirmation_status = "confirmed"
                              THEN api_sent + 1 ELSE api_sent
               /\ exit_status' = "returned"
               /\ UNCHANGED <<user_audio_buffer, recording_active, lock,
                              assistant_responses, cap_pc, cap_chunk, next_chunk,
                              rec_pc, audio_data>>
    /\ agent_pc' = "exit"
    /\ UNCHANGED <<current_transcript, segment_ready, call_complete, stream_open,
                   stt_listening, stt_pc, transcripts_sent, loop_text>>
    /\ UNCHANGED llm_vars
    /\ UNCHANGED audio_responses

(***************************************************************************)
(* SpecLLM: an LLMAgent driven by any sequence of utterances and replies.  *)
(***************************************************************************)
InitLLM == (\E key \in BOOLEAN : LLMInit(key, FALSE)) /\ RecorderInit /\ AgentInit

NextLLM ==
    \/ \E text \in UserTexts :
          GenerateResponseBegin(text) /\ UNCHANGED <<rec_vars, agent_vars>>
    \/ \E text \in ReplyTexts :
          CallOpenAIReturns(text) /\ UNCHANGED <<rec_vars, agent_vars>>
    \/ CallOpenAIRaises /\ UNCHANGED <<rec_vars, agent_vars>>
    \/ \E text \in UserTexts \cup ReplyTexts :
          ExtractBookingInfoCall(text) /\ UNCHANGED <<rec_vars, agent_vars>>
    \/ \E text \in UserTexts :
          DetectConfirmationCall(text) /\ UNCHANGED <<rec_vars, agent_vars>>

SpecLLM == InitLLM /\ [][NextLLM]_vars

(***************************************************************************)
(* Properties of the confirmation policy, checked under SpecLLM.           *)
(***************************************************************************)
\* C1, as stated: confirmation_status changes value at most once per call;
\* once it has left "pending" it never changes again.
C1_ChangesAtMostOnce ==
    [][booking_data.confirmation_status # "pending"
          => booking_data'.confirmation_status = booking_data.confirmation_status]_vars

\* C1, amended: confirmation_status never returns to "pending" and never
\* leaves "confirmed"; it leaves "pending" for "confirmed" or
\* "not_interested", and the only change after that is from "not_interested"
\* to "confirmed", made by generate_response when the reply it received
\* contains the BOOKING_CONFIRMED marker.
C1_ChangesForwardOnly ==
    [][booking_data'.confirmation_status # booking_data.confirmation_status
          => \/ /\ booking_data.confirmation_status = "pending"
                /\ booking_data'.confirmation_status \in {"confirmed", "not_interested"}
             \/ /\ booking_data.confirmation_status = "not_interested"
                /\ booking_data'.confirmation_status = "confirmed"
                /\ llm_pc = "calling" /\ llm_pc' = "idle"
                /\ CheckMarker(response')]_vars

\* a call whose caller declined ("No") and whose first reply carried the
\* marker: the status has changed twice, pending -> not_interested -> confirmed
C1_Witness ==
    /\ Len(conversation_history) = 3
    /\ conversation_history[2] = [role |-> "user", content |-> "No"]
    /\ conversation_history[3] = [role |-> "assistant", content |-> "BOOKING_CONFIRMED"]
    /\ booking_data.confirmation_status = "confirmed"

\* C2: whenever confirmation_status is not "pending", processing a user
\* utterance (_detect_confirmation, alone or inside generate_response before
\* the request) leaves it unchanged; after "confirmed" a rejection keyword
\* leaves it "confirmed".
C2_UtteranceLeavesNonPending ==
    [][(llm_pc = "idle" /\ booking_data.confirmation_status # "pending")
          => booking_data'.confirmation_status = booking_data.confirmation_status]_vars

\* the caller said "Yes", was answered, then said "No": the second utterance
\* has been processed and the status is still "confirmed"
C2_Witness ==
    /\ llm_pc = "calling"
    /\ user_text = "No"
    /\ Len(conversation_history) = 4
    /\ conversation_history[2] = [role |-> "user", content |-> "Yes"]
    /\ booking_data.confirmation_status = "confirmed"

\* C3: whenever the reply generate_response receives contains the
\* BOOKING_CONFIRMED marker, confirmation_status is "confirmed" when the turn
\* ends, whatever it was before.
C3_MarkerForcesConfirmed ==
    [][(llm_pc = "calling" /\ llm_pc' = "idle"
          /\ Len(conversation_history') = Len(conversation_history) + 1
          /\ CheckMarker(conversation_history'[Len(conversation_history')].content))
          => booking_data'.confirmation_status = "confirmed"]_vars

\* the caller declined in the first turn, the status stayed "not_interested"
\* through the first reply and the second utterance (which contains the
\* confirmation keyword "right"), and the marker in the second reply
\* confirmed it
C3_Witness ==
    /\ Len(conversation_history) = 5
    /\ conversation_history[2] = [role |-> "user", content |-> "No"]
    /\ conversation_history[3] = [role |-> "assistant", content |-> "Which city?"]
    /\ conversation_history[4] = [role |-> "user", content |-> "right now"]
    /\ conversation_history[5] = [role |-> "assistant", content |-> "BOOKING_CONFIRMED"]
    /\ booking_data.confirmation_status = "confirmed"

(***************************************************************************)
(* SpecRecorder: a ConversationRecorder whose client (processing thread)   *)
(* makes any sequence of calls while the audio driver's thread pushes.     *)
(***************************************************************************)
InitRecorder == LLMInit(TRUE, FALSE) /\ RecorderInit /\ AgentInit

NextRecorder ==
    \/ AddAudioChunkCheck /\ UNCHANGED <<llm_vars, agent_vars>>
    \/ AddAudioChunkAcquire /\ UNCHANGED <<llm_vars, agent_vars>>
    \/ AddAudioChunkAppend /\ UNCHANGED <<llm_vars, agent_vars>>
    \/ StartRecordingAcquire /\ UNCHANGED <<llm_vars, agent_vars>>
    \/ StartRecordingBody /\ UNCHANGED <<llm_vars, agent_vars>>
    \/ StopRecordingAcquire /\ UNCHANGED <<llm_vars, agent_vars>>
    \/ StopRecordingBody /\ UNCHANGED <<llm_vars, agent_vars>>
    \/ StopRecordingCheck /\ UNCHANGED <<llm_vars, agent_vars>>
    \/ SaveUserAudioJoin /\ UNCHANGED <<llm_vars, agent_vars>>
    \/ SaveUserAudioWrite /\ UNCHANGED <<llm_vars, agent_vars>>
    \/ \E p \in ReplyPaths : AddAssistantResponse(p) /\ UNCHANGED <<llm_vars, agent_vars>>
    \/ \E d \in BOOLEAN : SynthesizeToFile(d) /\ UNCHANGED <<llm_vars, agent_vars>>
    \/ \E p \in ReplyPaths : RemoveOldFile(p) /\ UNCHANGED <<llm_vars, agent_vars>>
    \/ MergeConversationBegin /\ UNCHANGED <<llm_vars, agent_vars>>
    \/ MergeConversationBuild /\ UNCHANGED <<llm_vars, agent_vars>>
    \/ \E e \in ExportOutcomes : MergeConversationExport(e) /\ UNCHANGED <<llm_vars, agent_vars>>
    \/ GetRecordingStats /\ UNCHANGED <<llm_vars, agent_vars>>

SpecRecorder == InitRecorder /\ [][NextRecorder]_vars

(***************************************************************************)
(* Properties of the recorder, checked under SpecRecorder.                 *)
(***************************************************************************)
\* C4, as stated: in every interleaving of add_audio_chunk with
\* start_recording and stop_recording, no step taken while recording_active
\* is false increases the number of chunks in user_audio_buffer.
C4_InactivePushIsNoOp ==
    [][~recording_active => Len(user_audio_buffer') <= Len(user_audio_buffer)]_vars

\* C5, as stated: at the step that completes stop_recording with chunks in
\* the buffer, the user artifact holds exactly the concatenation, in order,
\* of the chunks stored since the last start_recording.
C5_FlushedFileIsWholeBuffer ==
    [][(rec_pc # "idle" /\ rec_pc' = "idle"
          /\ last_return'.op = "stop_recording" /\ user_audio_buffer' # <<>>)
          => /\ Exists(files', user_audio_path)
             /\ files'[user_audio_path].data = Join(user_audio_buffer')]_vars

\* 500 ms of silence, the user audio, 300 ms of silence and the audio of each
\* reply of `replies`, 500 ms of silence
Timeline(fs, replies) ==
    LET n == Len(replies)
    IN [i \in 1..(2 * n + 3) |->
          IF i = 1 \/ i = 2 * n + 3 THEN [kind |-> "silence", ms |-> 500, data |-> <<>>]
          ELSE IF i = 2 THEN [kind |-> "user", ms |-> 0, data |-> fs[user_audio_path].data]
          ELSE IF i % 2 = 1 THEN [kind |-> "silence", ms |-> 300, data |-> <<>>]
          ELSE [kind |-> "reply", ms |-> 0, data |-> fs[replies[(i - 2) \div 2]].data]]

\* C8: when the user artifact exists (and every reply artifact present can be
\* decoded), merge_conversation goes on to export, whichever replies are
\* missing, and the timeline it exports is 500 ms of silence, the user audio,
\* for each registered reply whose artifact exists, in registration order,
\* 300 ms of silence and the reply, then 500 ms of silence; the merged
\* artifact written by a successful export is that timeline.
C8_MergedTimeline ==
    [][/\ (rec_pc = "merge" /\ rec_pc' # "merge"
             /\ Exists(files, user_audio_path)
             /\ \A i \in 1..Len(assistant_responses) :
                   Exists(files, assistant_responses[i]) => files[assistant_responses[i]].ok)
          => /\ rec_pc' = "export"
             /\ conversation' =
                   Timeline(files, SelectSeq(assistant_responses,
                                             LAMBDA q : Exists(files, q)))
       /\ (rec_pc = "export" /\ rec_pc' = "idle" /\ last_return'.value = conversation_path)
          => files'[conversation_path] = [fmt |-> "wav", ok |-> TRUE, data |-> conversation]
      ]_vars

\* three replies were registered, the second one's artifact was missing, and
\* the merge returned the path of a file with exactly two reply segments
C8_Witness ==
    /\ rec_pc = "idle"
    /\ last_return = [op |-> "merge_conversation", value |-> conversation_path]
    /\ Len(assistant_responses) = 3
    /\ Exists(files, conversation_path)
    /\ Len(files[conversation_path].data) = 7
    /\ files[conversation_path].data[2].kind = "user"
    /\ files[conversation_path].data[2].data # <<>>
    /\ files[conversation_path].data[4] = [kind |-> "reply", ms |-> 0, data |-> <<1>>]
    /\ files[conversation_path].data[6] = [kind |-> "reply", ms |-> 0, data |-> <<3>>]

\* C9, as stated: when the user artifact exists and a registered reply
\* artifact exists but cannot be decoded, merge_conversation passes over that
\* reply and goes on to export the user audio and every readable reply.
C9_UnreadableReplySkipped ==
    [][(rec_pc = "merge" /\ rec_pc' # "merge"
          /\ Exists(files, user_audio_path)
          /\ \E i \in 1..Len(assistant_responses) :
                Exists(files, assistant_responses[i]) /\ ~files[assistant_responses[i]].ok)
          => /\ rec_pc' = "export"
             /\ conversation' =
                   Timeline(files, SelectSeq(assistant_responses,
                                             LAMBDA q : Exists(files, q) /\ files[q].ok))
      ]_vars

\* C10: when the user artifact does not exist, merge_conversation returns
\* None and changes nothing: no file is created, overwritten or deleted, and
\* the list of registered replies is unchanged.
C10_NoUserAudioNoEffect ==
    [][(rec_pc = "merge" /\ rec_pc' # "merge" /\ ~Exists(files, user_audio_path))
          => /\ rec_pc' = "idle"
             /\ last_return' = [op |-> "merge_conversation", value |-> None]
             /\ files' = files
             /\ assistant_responses' = assistant_responses]_vars

\* merge_conversation has returned None with no user artifact, while a
\* registered reply's artifact is still in the session directory
C10_Witness ==
    /\ rec_pc = "idle"
    /\ last_return = [op |-> "merge_conversation", value |-> None]
    /\ ~Exists(files, user_audio_path)
    /\ ~Exists(files, conversation_path)
    /\ \E i \in 1..Len(assistant_responses) : Exists(files, assistant_responses[i])

C12_MergedWrittenOnce ==
    [][(Exists(files, conversation_path) /\ files[conversation_path].ok
          /\ files'[conversation_path].ok)
          => files'[conversation_path] = files[conversation_path]]_vars

C14_FailureKeepsInputs ==
    [][(rec_pc \in {"merge", "export"} /\ rec_pc' = "idle"
          /\ Exists(files, user_audio_path)
          /\ last_return'.value # conversation_path)
          => /\ last_return' = [op |-> "merge_conversation", value |-> None]
             /\ \A p \in Paths : p # conversation_path => files'[p] = files[p]]_vars

\* merge_conversation has returned None although the user artifact exists,
\* and the user artifact and two registered reply artifacts are still there
C14_Witness ==
    /\ rec_pc = "idle"
    /\ last_return = [op |-> "merge_conversation", value |-> None]
    /\ Exists(files, user_audio_path)
    /\ Len(assistant_responses) = 2
    /\ \A i \in 1..2 : Exists(files, assistant_responses[i])

(***************************************************************************)
(* SpecAgent: one call handled by VoiceAgent, from the end of __init__ to  *)
(* the end of the process: the main thread, the audio driver's callback    *)
(* and the transcription listener.                                         *)
(***************************************************************************)
InitAgent == (\E key \in BOOLEAN : LLMInit(key, TRUE)) /\ RecorderInit /\ AgentInit

NextAgent ==
    \/ VoiceAgentInit
    \/ \E o \in StartOutcomes : RunStart(o)
    \/ AudioCallback
    \/ \E t \in Transcripts, f \in BOOLEAN : OnMessageTranscript(t, f)
    \/ OnMessageFinal
    \/ OnSpeechFinal
    \/ LoopCheckComplete
    \/ LoopCheckSegment
    \/ LoopJoin
    \/ LoopClear
    \/ ProcessUserInput
    \/ GenerateResponseEnd
    \/ \E synthesized \in BOOLEAN : ProcessUserInputEnd(synthesized)
    \/ KeyboardInterrupt
    \/ ShutdownStopSTT
    \/ ShutdownStopRecording
    \/ \E e \in ExportOutcomes : ShutdownFinish(e)
    \/ Tick /\ UNCHANGED <<rec_vars, agent_vars>>

SpecAgent == InitAgent /\ [][NextAgent]_vars

\* C6, as stated: every termination of a call, by interrupt, runtime error
\* or completion, has performed merge_conversation: when the process has
\* ended, shutdown has reached the merge step.
C6_TerminationMerges == (agent_pc = "exit") => merge_begun

(***************************************************************************)
(* SpecExtract: _extract_booking_info applied to any sequence of           *)
(* utterances and replies that carry booking details, from a fresh record. *)
(***************************************************************************)
InitExtract == LLMInit(TRUE, FALSE) /\ RecorderInit /\ AgentInit

NextExtract ==
    \E text \in ExtractTexts :
        ExtractBookingInfoCall(text) /\ UNCHANGED <<rec_vars, agent_vars>>

SpecExtract == InitExtract /\ [][NextExtract]_vars

(***************************************************************************)
(* Properties of the field extraction, checked under SpecExtract.          *)
(***************************************************************************)
BookingFields ==
    {"pickup_location", "drop_location", "vehicle_type", "body_type",
     "goods_type", "trip_date"}

\* the step is _extract_booking_info applied to this text
ExtractStep(text) == booking_data' = ExtractBookingInfo(booking_data, text, clock)

\* C15: each of the six booking fields, once it holds a value, is never reset
\* to unset or empty by a later _extract_booking_info call.
C15_FieldsNeverCleared ==
    [][\A f \in BookingFields :
          Truthy(booking_data[f]) => Truthy(booking_data'[f])]_vars

\* all six fields hold a value, the locations out of two different utterances
C15_Witness ==
    /\ booking_data.pickup_location = "Chennai Central"
    /\ booking_data.drop_location = "Bangalore"
    /\ booking_data.vehicle_type = "407"
    /\ booking_data.body_type = "Open"
    /\ booking_data.goods_type = "Steel"
    /\ booking_data.trip_date = DateStr(0, 1)

\* the captures of the confirmation-style pattern, cleaned as lines 231-239
\* clean them: trimmed, title-cased, leading in/from/at stripped
ConfirmedCapture(text, n) ==
    StripPrefixes(Title(Strip(MatchesOf(Lower(text)).confirmation[n])), 1)

ConfirmationMatches(text) == MatchesOf(Lower(text)).confirmation # NoMatch

\* the captures of the free-form pattern, trimmed and title-cased
FreeFormCapture(text, n) == Title(Strip(MatchesOf(Lower(text)).from_to[n]))

FreeFormMatches(text) == MatchesOf(Lower(text)).from_to # NoMatch

C17_FreeFormOnlyLonger ==
    [][\A text \in ExtractTexts :
          (ExtractStep(text) /\ FreeFormMatches(text) /\ ~ConfirmationMatches(text))
              => /\ \A n \in 1..2 :
                      LET f == <<"pickup_location", "drop_location">>[n]
                          capture == FreeFormCapture(text, n)
                      IN /\ ~Truthy(booking_data[f]) => booking_data'[f] = capture
                         /\ (Truthy(booking_data[f]) /\ Len(capture) > Len(booking_data[f]))
                               => booking_data'[f] = capture
                         /\ (Truthy(booking_data[f]) /\ Len(capture) <= Len(booking_data[f]))
                               => booking_data'[f] = booking_data[f]
                 /\ (text = "from Chennai to Bangalore" /\ booking_data = BookingDataInit)
                       => /\ booking_data'.pickup_location = "Chennai"
                          /\ booking_data'.drop_location = "Bangalore"]_vars

\* "from Chennai to Bangalore" and "from Chennai Central to Goa", in either
\* order: one capture was longer than the value held and replaced it, the
\* other was shorter and did not
C17_Witness ==
    /\ booking_data.pickup_location = "Chennai Central"
    /\ booking_data.drop_location = "Bangalore"
    /\ booking_data.vehicle_type = None

\* C18: body_type, goods_type and trip_date are write-once: once one of them
\* is set, no later _extract_booking_info call changes its value.
C18_WriteOnce ==
    [][\A f \in {"body_type", "goods_type", "trip_date"} :
          Truthy(booking_data[f]) => booking_data'[f] = booking_data[f]]_vars

\* "steel container tomorrow" applied to a record whose body type was
\* already "Open"
C18_Witness ==
    /\ booking_data.body_type = "Open"
    /\ booking_data.goods_type = "Steel"
    /\ booking_data.trip_date = DateStr(0, 1)

\* C19, as stated: once vehicle_type holds a value, no later utterance
\* changes it.
C19_VehicleWriteOnce ==
    [][Truthy(booking_data.vehicle_type)
          => booking_data'.vehicle_type = booking_data.vehicle_type]_vars

\* C19, amended: the sliding-window match and the feet / "truck" fallback
\* are applied only while vehicle_type is unset, but the "truck type ..."
\* re-match is applied to every utterance: once vehicle_type holds a value,
\* a later utterance changes it exactly when the phrase after "truck" scores
\* at least 65 against a catalog key, and then to that key's label.
C19_OnlyRematchOverwrites ==
    [][\A text \in ExtractTexts :
          (ExtractStep(text) /\ Truthy(booking_data.vehicle_type))
              => booking_data'.vehicle_type =
                    IF MatchesOf(Lower(text)).truck # None
                    THEN MatchesOf(Lower(text)).truck
                    ELSE booking_data.vehicle_type]_vars

\* "truck type 407" and "Pickup in Sanit, drop in Benbrook" have both been
\* applied: one of them met a vehicle_type that was already set
C19_Witness ==
    /\ booking_data.vehicle_type = "407"
    /\ booking_data.pickup_location = "Sanit"

\* C20: on a fresh record the utterance "I need a Tata AC open truck" gives
\* vehicle_type "Tata Ace" and body_type "Open", the label of the
\* highest-scoring (span, key) pair of the sliding window.
C20_TataAcGivesTataAce ==
    [][(booking_data = BookingDataInit /\ ExtractStep("I need a Tata AC open truck"))
          => /\ booking_data'.vehicle_type = "Tata Ace"
             /\ booking_data'.body_type = "Open"]_vars

\* C21: every utterance that contains "tomorrow", processed while trip_date
\* is unset, sets trip_date to the current date plus one day, whatever other
\* words the utterance contains.
C21_TomorrowSetsNextDay ==
    [][\A text \in ExtractTexts :
          (/\ ExtractStep(text)
           /\ Contains(Lower(text), "tomorrow")
           /\ ~Truthy(booking_data.trip_date))
          => booking_data'.trip_date = DateStr(clock, 1)]_vars

(***************************************************************************)
(* Properties of the orchestrator's turns, checked under SpecAgent.        *)
(***************************************************************************)
\* the reply contains the confirmation marker or a closing phrase, in any
\* letter case
ReplyCloses(text) ==
    \/ Contains(Lower(text), "booking_confirmed")
    \/ AnyIn(closing_phrases, Lower(text))

\* the end of a turn: process_user_input returns to the capture loop
TurnEnds == agent_pc = "tts" /\ agent_pc' = "loop"

\* C22, as stated: a turn sets call_complete exactly when the reply generated
\* in that turn contains the confirmation marker or a closing phrase, and once
\* call_complete is set the capture loop processes no further utterance.
C22_CompleteIffReplyCloses ==
    [][/\ TurnEnds => (call_complete' <=> ReplyCloses(response))
       /\ call_complete => agent_pc' \notin {"loop_segment", "loop_join", "loop_clear",
                                             "process", "llm_wait", "tts"}]_vars

\* C22, amended: with a language-model key configured, a turn sets
\* call_complete exactly when the reply generated in that turn contains the
\* confirmation marker or a closing phrase (in any letter case); in echo mode
\* no turn sets it, whatever the echoed reply contains; and once call_complete
\* is set the capture loop processes no further utterance.
C22_CompleteIffModelReplyCloses ==
    [][/\ TurnEnds => (call_complete' <=> (api_key /\ ReplyCloses(response)))
       /\ call_complete => agent_pc' \notin {"loop_segment", "loop_join", "loop_clear",
                                             "process", "llm_wait", "tts"}]_vars

\* the model said "Goodbye": the call is complete and the loop has been left
\* although another segment was ready
C22_Witness ==
    /\ call_complete
    /\ agent_pc = "shutdown"
    /\ response = "Goodbye"
    /\ segment_ready

\* the turn that ends has synthesized its reply: the audio was stored in
\* memory or written to a file
ReplySynthesized ==
    TurnEnds /\ (audio_responses' # audio_responses \/ files' # files)

\* C24: for every reply synthesized successfully during a call, a reference
\* to its audio is appended to the recorder's assistant-reply list, so the
\* list grows by one entry per synthesized reply, in generation order.
C24_SynthesizedReplyRegistered ==
    [][ReplySynthesized
          => /\ Len(assistant_responses') = Len(assistant_responses) + 1
             /\ SubSeq(assistant_responses', 1, Len(assistant_responses))
                   = assistant_responses]_vars

(***************************************************************************)
(* Properties of the recorder's lock, checked under SpecRecorder.          *)
(***************************************************************************)
\* the step is the flag test of add_audio_chunk (line 61)
CaptureReadsFlag == cap_pc = "idle" /\ next_chunk' # next_chunk

\* the step is the buffer test of stop_recording (line 70) or the test and
\* join of _save_user_audio (lines 76-80)
ProcessingReadsBuffer == rec_pc \in {"stop_check", "save_join"} /\ rec_pc' # rec_pc

\* C25: every read or write of the frame list and of the active flag by
\* add_audio_chunk, start_recording, stop_recording and _save_user_audio is
\* made while the acting thread holds the lock.
C25_AccessUnderLock ==
    [][/\ CaptureReadsFlag => lock = "capture"
       /\ ProcessingReadsBuffer => lock = "main"
       /\ (user_audio_buffer' # user_audio_buffer
             \/ recording_active' # recording_active) => lock # "free"]_vars

\* positions of the processing thread inside `with self.lock` (lines 48-50
\* and 67-68)
LockedSections == {"start_locked", "stop_locked"}

\* C26: the processing thread holds the lock only for the in-memory update
\* of the flag and the clear of the buffer: the step it takes while holding
\* the lock releases it and touches no file and no timeline; the lock is
\* never held by it during the buffer join, the file write or the merge; so
\* whenever the processing thread is outside those two sections, a push that
\* waits for the lock can take it.
C26_LockOnlyAroundMemoryUpdate ==
    [][/\ lock = "main" => rec_pc \in LockedSections
       /\ (lock = "main" /\ rec_pc' # rec_pc)
             => /\ lock' = "free"
                /\ files' = files
                /\ audio_data' = audio_data
                /\ conversation' = conversation
                /\ assistant_responses' = assistant_responses
       /\ (cap_pc = "wait_lock" /\ rec_pc \notin LockedSections) => lock = "free"]_vars

\* stop_recording is writing the user file while a push that passed the flag
\* test holds the lock and is about to append
C26_Witness ==
    /\ rec_pc = "save_write"
    /\ cap_pc = "locked"
    /\ lock = "capture"

(***************************************************************************)
(* A failed request to the language model, checked under SpecAgent.        *)
(***************************************************************************)
\* the reply generate_response returns when _call_openai raised (line 103)
FallbackReply == "I'm having trouble processing that right now. Could you try again?"

\* the step is generate_response returning to process_user_input after
\* _call_openai raised
LLMCallFails == agent_pc = "llm_wait" /\ agent_pc' = "tts" /\ response' = FallbackReply

\* C27: when the request to the language model fails, generate_response
\* returns the fallback reply, adds no message to the history, leaves the
\* booking record as it was (no reply-side extraction, no confirmation by
\* marker) and does not make is_call_complete true; the turn then ends with
\* call_complete unset and the orchestrator back in its capture loop.
C27_FailedCallChangesNothing ==
    [][/\ LLMCallFails
             => /\ conversation_history' = conversation_history
                /\ booking_data' = booking_data
                /\ ~is_call_complete(conversation_history')
       /\ (TurnEnds /\ response = FallbackReply)
             => /\ ~call_complete'
                /\ agent_pc' = "loop"]_vars

\* after a turn whose request failed, the next utterance is being processed
C27_Witness ==
    /\ response = FallbackReply
    /\ agent_pc = "process"
    /\ ~call_complete
    /\ Len(conversation_history) = 2

(***************************************************************************)
(* SpecLogged: _extract_booking_info applied to utterances and replies by  *)
(* an LLMAgent that has a WorkflowLogger attached, as src/main.py line 58  *)
(* builds it, until MaxUpdates events have been logged.                    *)
(***************************************************************************)
InitLogged == LLMInit(TRUE, TRUE) /\ RecorderInit /\ AgentInit

SpecLogged == InitLogged /\ [][NextExtract]_vars

\* the value of the most recent update event of a field, None if there is none
LastValue(updates, f) ==
    LET of_field == {i \in 1..Len(updates) : updates[i].field = f}
    IN IF of_field = {} THEN None
       ELSE updates[CHOOSE i \in of_field : \A j \in of_field : j <= i].value

\* the record after the assignments that the events from the i-th on report
RECURSIVE Replay(_, _, _)
Replay(bd, updates, i) ==
    IF i > Len(updates) THEN bd
    ELSE Replay([bd EXCEPT ![updates[i].field] = updates[i].value], updates, i + 1)

\* C28: with a logger attached, _extract_booking_info emits one update event,
\* carrying the field name and the new value, for each assignment it makes to
\* a booking field: events are only appended, the events of a call applied in
\* order to the record before the call give the record after it, the most
\* recent event of each field carries the field's current value, and a field
\* without an event is still unset.
C28_UpdatesMirrorFields ==
    [][/\ Len(booking_updates') >= Len(booking_updates)
       /\ SubSeq(booking_updates', 1, Len(booking_updates)) = booking_updates
       /\ Replay(booking_data, booking_updates', Len(booking_updates) + 1) = booking_data'
       /\ \A f \in BookingFields : booking_data'[f] = LastValue(booking_updates', f)]_vars

\* a field has been assigned twice with different values; the log holds both
\* events and the later one is the field's value
C28_Witness ==
    \E i, j \in 1..Len(booking_updates) :
        /\ i < j
        /\ booking_updates[i].field = booking_updates[j].field
        /\ booking_updates[i].value # booking_updates[j].value
        /\ booking_data[booking_updates[j].field] = booking_updates[j].value

(***************************************************************************)
(* The recording statistics, checked under SpecRecorder.                   *)
(***************************************************************************)
\* the reply count get_recording_stats would report in this state
ReportedReplies == RecordingStats(files, assistant_responses).assistant_responses

\* C29: get_recording_stats changes no state of the recorder, and the reply
\* count it reports equals the number of add_assistant_response calls made so
\* far: the count is 0 on a new recorder, every add_assistant_response call
\* raises it by one and no other step changes it.
C29_StatsCountRegistrations ==
    [][/\ (last_return'.op = "get_recording_stats" /\ GetRecordingStats)
             => /\ UNCHANGED <<user_audio_buffer, recording_active, lock, files,
                               assistant_responses, audio_data, conversation>>
                /\ last_return'.stats.assistant_responses = ReportedReplies
       /\ ReportedReplies' =
             IF /\ last_return'.op = "add_assistant_response"
                /\ \E p \in ReplyPaths : AddAssistantResponse(p)
             THEN ReportedReplies + 1 ELSE ReportedReplies
       /\ Len(assistant_responses) = 0 => ReportedReplies = 0]_vars

\* two replies were registered, one of the files has been removed since, and
\* get_recording_stats has just reported two replies
C29_Witness ==
    /\ last_return.op = "get_recording_stats"
    /\ last_return.stats.assistant_responses = 2
    /\ Len(assistant_responses) = 2
    /\ \E p \in ReplyPaths : ~Exists(files, p) /\ \E k \in 1..2 : assistant_responses[k] = p

(***************************************************************************)
(* start_recording against concurrent pushes, checked under SpecRecorder.  *)
(***************************************************************************)
\* the step in which start_recording runs its locked section and returns
StartRecordingReturns == rec_pc = "start_locked" /\ rec_pc' = "idle"

\* C30: when start_recording has run, the buffer is empty and the recorder is
\* active; every other step, in any interleaving with pushes, leaves the
\* buffer as it is or appends the chunk of the push at its end, so the buffer
\* holds exactly the chunks appended since the clear; and these are in the
\* order in which the driver delivered them.
C30_StartClearsThenAppendOnly ==
    [][/\ StartRecordingReturns
             => /\ user_audio_buffer' = <<>>
                /\ recording_active'
       /\ ~StartRecordingReturns
             => \/ user_audio_buffer' = user_audio_buffer
                \/ user_audio_buffer' = Append(user_audio_buffer, cap_chunk)
       /\ \A i, j \in 1..Len(user_audio_buffer') :
             i < j => user_audio_buffer'[i][1] < user_audio_buffer'[j][1]]_vars

\* a second start_recording has dropped the frame of the first recording
\* (which the user file still holds), and a push that followed it has stored
\* the next frame
C30_Witness ==
    /\ last_return.op = "start_recording"
    /\ Exists(files, user_audio_path)
    /\ files[user_audio_path].data = Frame(1)
    /\ user_audio_buffer = <<Frame(2)>>
    /\ recording_active


(***************************************************************************)
(* stop_recording and the frame list, checked under SpecRecorder.          *)
(***************************************************************************)
StopSections == {"stop_locked", "stop_check", "save_join", "save_write"}

IsPrefix(a, b) == Len(a) <= Len(b) /\ SubSeq(b, 1, Len(a)) = a

\* C31: no step of stop_recording changes user_audio_buffer, the flush to
\* the user artifact included; from its entry to its return every chunk that
\* was in the buffer stays there in the same order, whatever the audio
\* thread does meanwhile, and when it returns recording_active is false.
C31_StopKeepsFrames ==
    [][/\ (rec_pc \in StopSections /\ rec_pc' # rec_pc)
            => user_audio_buffer' = user_audio_buffer
       /\ (rec_pc \in StopSections \/ rec_pc' \in StopSections)
            => IsPrefix(user_audio_buffer, user_audio_buffer')
       /\ (rec_pc \in StopSections /\ rec_pc' = "idle") => ~recording_active'
      ]_vars

\* stop_recording has returned after writing a buffer of two chunks, and
\* both chunks are still in the buffer
C31_Witness ==
    /\ rec_pc = "idle"
    /\ last_return.op = "stop_recording"
    /\ ~recording_active
    /\ user_audio_buffer = <<Frame(1), Frame(2)>>
    /\ Exists(files, user_audio_path)
    /\ files[user_audio_path].data = Join(user_audio_buffer)


\* C32: a step of stop_recording / _save_user_audio that finds the buffer
\* empty returns without touching any file; and in a run of the recorder in
\* which the buffer never holds a chunk, the user artifact never exists and
\* every return of merge_conversation is None.
C32_EmptyBufferWritesNothing ==
    /\ [][(rec_pc \in {"stop_check", "save_join"} /\ rec_pc' # rec_pc
              /\ user_audio_buffer = <<>>)
             => /\ files' = files
                /\ rec_pc' = "idle"
                /\ last_return' = [op |-> "stop_recording", value |-> None]]_vars
    /\ ([](user_audio_buffer = <<>>))
          => [](/\ ~Exists(files, user_audio_path)
                /\ last_return.op = "merge_conversation"
                      => last_return.value = None)

\* no chunk was ever delivered, a merge_conversation has been entered and
\* has returned, and stop_recording has returned with an empty buffer: no
\* user artifact and no merged artifact exist
C32_Witness ==
    /\ rec_pc = "idle"
    /\ last_return = [op |-> "stop_recording", value |-> None]
    /\ next_chunk = 1
    /\ user_audio_buffer = <<>>
    /\ merge_begun
    /\ ~Exists(files, user_audio_path)
    /\ ~Exists(files, conversation_path)


\* C33: an utterance containing "day after tomorrow", processed while
\* trip_date is unset, sets trip_date to the current date plus two days.
C33_DayAfterTomorrowSetsSecondDay ==
    [][\A text \in ExtractTexts :
          (/\ ExtractStep(text)
           /\ Contains(Lower(text), "day after tomorrow")
           /\ ~Truthy(booking_data.trip_date))
          => booking_data'.trip_date = DateStr(clock, 2)]_vars


(***************************************************************************)
(* The listener's callbacks against the main loop, checked under SpecAgent.*)
(***************************************************************************)
\* C34: in every interleaving of on_transcript / on_final with the main
\* loop no delivered segment is lost or processed twice: the segments that
\* the loop's clear removes from current_transcript are exactly those joined
\* into the utterance handed to process_user_input.
C34_SegmentsProcessedExactlyOnce ==
    [][(agent_pc = "loop_clear" /\ agent_pc' # "loop_clear")
          => loop_text = Strip(JoinSpace(current_transcript))]_vars


(***************************************************************************)
(* The two marker tests, checked under SpecLLM.                            *)
(***************************************************************************)
\* C36: whenever is_call_complete reports completion because the last
\* assistant reply contains the confirmation marker, in whatever letter
\* case, confirmation_status is "confirmed".
C36_MarkerCompletionMeansConfirmed ==
    (/\ llm_pc = "idle"
     /\ is_call_complete(conversation_history)
     /\ Contains(LastAssistant(conversation_history), "booking_confirmed"))
       => booking_data.confirmation_status = "confirmed"


(***************************************************************************)
(* Echo mode (no language-model key), checked under SpecAgent.             *)
(***************************************************************************)
\* the main thread leaves the capture loop for shutdown
LoopLeft == agent_pc # "shutdown" /\ agent_pc' = "shutdown"

\* C37: without a language-model key, generate_response applies field
\* extraction and confirmation detection to the utterance and answers with
\* its echo, but the conversation history stays empty; so call_complete is
\* never set, and the loop is left only by an interrupt or by an error at
\* start-up, never by the completion test.
C37_EchoModeNeverCompletes ==
    [][~api_key =>
         /\ (agent_pc = "process" /\ agent_pc' = "tts")
               => /\ booking_data' =
                       DetectConfirmation(
                           ExtractBookingInfo(booking_data, loop_text, clock), loop_text)
                  /\ response' = "[Echo Mode] You said: " \o loop_text
         /\ conversation_history' = <<>>
         /\ ~is_call_complete(conversation_history')
         /\ ~call_complete'
         /\ LoopLeft => (KeyboardInterrupt
                           \/ \E o \in StartOutcomes \ {"ok"} : RunStart(o))
      ]_vars

\* echo mode after a turn whose utterance held a rejection keyword and
\* whose echoed reply holds a closing phrase: the status is set, the history
\* is empty, and the loop goes on
C37_Witness ==
    /\ ~api_key
    /\ agent_pc = "loop"
    /\ response = "[Echo Mode] You said: No thanks, bye"
    /\ booking_data.confirmation_status = "not_interested"
    /\ conversation_history = <<>>
    /\ audio_responses # <<>>
    /\ ~call_complete

====
